---- MODULE Spec2Model ----
(***************************************************************************)
(* A model of the karma compiler: the LL(1) table-driven parser with its   *)
(* parse-tree arena (src/src/parser.rs), the parse-tree -> AST lowering    *)
(* with the left-associativity rebalancers, the semantic analyzer (scope   *)
(* resolution and type checking, src/src/source.rs) and the bytecode       *)
(* emitter (generate_bytecode and its helpers).                            *)
(*                                                                         *)
(* Values.  A token is a record [t, name, num]: t is the tag of            *)
(* lexer::Token, name the payload of ID, num the payload of Integer and    *)
(* Float (a Float literal n.0 carries n) and the code point of Character.  *)
(* A Rust String is the sequence of its lexemes (an identifier is one      *)
(* lexeme, a blank is one lexeme): the type string "[int; 3]" is          *)
(* <<"[", "int", ";", " ", "3", "]">>, so that rfind(";") and the slices  *)
(* the code takes of a type string are computed, not assumed.  NoToken     *)
(* stands for Option::None.  A grammar symbol is a record                  *)
(* [kind, sym, name, num]; an AST is a record [node, name, num, children]. *)
(***************************************************************************)
EXTENDS Integers, Sequences, FiniteSets, TLC

VARIABLES
    src,        \* the source program, as the descriptor its tokens are built from
    input,      \* the token sequence the lexer hands to the parser
    pstate,     \* Parser::parse's loop state: stack, parse_tree, idx, pos, result
    ast,        \* Parser::ast, set by generate_ast
    phase,      \* position of the driver
    source,     \* Source: [graph, symbol_table]
    funcs,      \* check_semantics' functions vector
    cur,        \* the symbol-table entry check_semantics is at: [keys, i]
    scope,      \* check_semantics_helper's state: [stack, var_set, work, code]
    firsts,     \* for each local name, the type var_set's iteration meets first
    error,      \* the Err code Source::new returned, 0 for none
    out,        \* generate_bytecode's files and per-node maps:
                \* [files, graph, written, addrs, locs, calls, panic]
    hist,       \* history: the scope-resolution step taken last
    lexer,      \* the Lexer: [chars, curr]
    last_token  \* what the last call of next_token returned

frontend == <<src, input, pstate, ast>>
analysis == <<source, funcs, cur, scope, firsts, error, out, hist>>
lexing == <<lexer, last_token>>
vars ==
    <<src, input, pstate, ast, phase, source, funcs, cur, scope, firsts, error, out, hist,
      lexer, last_token>>

-----------------------------------------------------------------------------
(* Tokens and grammar symbols *)

\* a Rust String: the sequence of its lexemes; "" is <<>>
Str(s) == <<s>>
EmptyStr == <<>>

Tok(tag) == [t |-> tag, name |-> EmptyStr, num |-> 0]
TokID(id) == [t |-> "ID", name |-> Str(id), num |-> 0]
TokInt(i) == [t |-> "Integer", name |-> EmptyStr, num |-> i]
TokFloat(i) == [t |-> "Float", name |-> EmptyStr, num |-> i]
TokChar(c) == [t |-> "Character", name |-> EmptyStr, num |-> c]
NoToken == [t |-> "None", name |-> EmptyStr, num |-> 0]

Terminal(tag) == [kind |-> "Terminal", sym |-> tag, name |-> EmptyStr, num |-> 0]
TerminalOf(tok) == [kind |-> "Terminal", sym |-> tok.t, name |-> tok.name, num |-> tok.num]
NT(nt) == [kind |-> "NT", sym |-> nt, name |-> EmptyStr, num |-> 0]
Empty == [kind |-> "Empty", sym |-> "", name |-> EmptyStr, num |-> 0]
End == [kind |-> "End", sym |-> "", name |-> EmptyStr, num |-> 0]

IsNonTerminal(s) == s.kind = "NT"

-----------------------------------------------------------------------------
(* The LL(1) table: Parser::parse's match on (nonterminal, lookahead).      *)
(* Production(nt, tok) is [ok, rhs]; ok = FALSE is the arm returning Err.   *)

ExprStart == {"ID", "Sub", "Integer", "Float", "Character", "True", "False", "LeftParen"}
TermStart == {"ID", "Sub", "Integer", "Float", "True", "False", "LeftParen"}
CondFollow == {"LeftBrace", "Semicolon", "Comma", "RightParen", "RightBracket"}
CompTokens == {"Equals", "Neq", "Less", "Greater", "Leq", "Geq"}
ExprFollow == CondFollow \cup CompTokens \cup {"LogicalAnd", "LogicalOr"}
StmtStart == {"Var", "Const", "While", "If", "Return", "ID"}

Rhs(seq) == [ok |-> TRUE, rhs |-> seq]
NoProduction == [ok |-> FALSE, rhs |-> <<>>]

Production(nt, tok) ==
    LET t == tok.t IN
    CASE nt = "Array" ->
            IF t = "LeftBracket"
            THEN Rhs(<<Terminal("LeftBracket"), NT("InputList"), Terminal("RightBracket")>>)
            ELSE NoProduction
      [] nt = "ArrLen" ->
            IF t = "Integer" THEN Rhs(<<TerminalOf(tok)>>) ELSE NoProduction
      [] nt = "AssignOrFnCall" ->
            IF t \in {"Assign", "LeftBracket"}
            THEN Rhs(<<NT("OptIndex"), Terminal("Assign"), NT("CondOrArr"), Terminal("Semicolon")>>)
            ELSE IF t = "LeftParen"
            THEN Rhs(<<Terminal("LeftParen"), NT("InputList"), Terminal("RightParen"),
                       Terminal("Semicolon")>>)
            ELSE NoProduction
      [] nt = "Block" ->
            IF t = "LeftBrace"
            THEN Rhs(<<Terminal("LeftBrace"), NT("StmtList"), Terminal("RightBrace")>>)
            ELSE NoProduction
      [] nt = "BoolExpr" ->
            IF t \in ExprStart THEN Rhs(<<NT("Expression"), NT("Comparison")>>) ELSE NoProduction
      [] nt = "BoolTerm" ->
            IF t \in ExprStart THEN Rhs(<<NT("BoolExpr"), NT("BoolTerm1")>>) ELSE NoProduction
      [] nt = "BoolTerm1" ->
            IF t = "LogicalAnd"
            THEN Rhs(<<Terminal("LogicalAnd"), NT("BoolExpr"), NT("Conditional1")>>)
            ELSE IF t \in CondFollow \cup {"LogicalOr"} THEN Rhs(<<>>)
            ELSE NoProduction
      [] nt = "Comparison" ->
            IF t \in CompTokens THEN Rhs(<<Terminal(t), NT("Expression")>>)
            ELSE IF t \in CondFollow \cup {"LogicalAnd", "LogicalOr"} THEN Rhs(<<>>)
            ELSE NoProduction
      [] nt = "Conditional" ->
            IF t \in ExprStart THEN Rhs(<<NT("BoolTerm"), NT("Conditional1")>>) ELSE NoProduction
      [] nt = "Conditional1" ->
            IF t = "LogicalOr"
            THEN Rhs(<<Terminal("LogicalOr"), NT("BoolTerm"), NT("Conditional1")>>)
            ELSE IF t \in CondFollow THEN Rhs(<<>>)
            ELSE NoProduction
      [] nt = "CondOrArr" ->
            IF t \in ExprStart THEN Rhs(<<NT("Conditional")>>)
            ELSE IF t = "LeftBracket" THEN Rhs(<<NT("Array")>>)
            ELSE NoProduction
      [] nt = "Definition" ->
            IF t \in {"Var", "Const"}
            THEN Rhs(<<Terminal(t), NT("ID"), Terminal("Colon"), NT("Type"), Terminal("Assign"),
                       NT("CondOrArr"), Terminal("Semicolon")>>)
            ELSE NoProduction
      [] nt = "Expression" ->
            IF t \in ExprStart THEN Rhs(<<NT("Term"), NT("Expression1")>>) ELSE NoProduction
      [] nt = "Expression1" ->
            IF t \in ExprFollow THEN Rhs(<<>>)
            ELSE IF t \in {"Sub", "Add"}
            THEN Rhs(<<Terminal(t), NT("Term"), NT("Expression1")>>)
            ELSE NoProduction
      [] nt = "Factor" ->
            IF t = "LeftParen"
            THEN Rhs(<<Terminal("LeftParen"), NT("Expression"), Terminal("RightParen")>>)
            ELSE IF t = "ID" THEN Rhs(<<NT("ID"), NT("IDOrFn")>>)
            ELSE IF t \in {"Sub", "Integer", "Float", "True", "False"} THEN Rhs(<<NT("Primitive")>>)
            ELSE NoProduction
      [] nt = "Func" ->
            IF t = "Fn"
            THEN Rhs(<<Terminal("Fn"), NT("ID"), Terminal("LeftParen"), NT("ParamList"),
                       Terminal("RightParen"), Terminal("Arrow"), NT("ReturnType"), NT("Block")>>)
            ELSE NoProduction
      [] nt = "ID" ->
            IF t = "ID" THEN Rhs(<<TerminalOf(tok)>>) ELSE NoProduction
      [] nt = "IDOrFn" ->
            IF t = "LeftBracket" THEN Rhs(<<NT("OptIndex")>>)
            ELSE IF t = "LeftParen"
            THEN Rhs(<<Terminal("LeftParen"), NT("InputList"), Terminal("RightParen")>>)
            ELSE IF t \in ExprFollow \cup {"Mul", "Div", "Add", "Sub"} THEN Rhs(<<>>)
            ELSE NoProduction
      [] nt = "InputList" ->
            IF t \in ExprStart \cup {"LeftBracket"} THEN Rhs(<<NT("CondOrArr"), NT("InputRest")>>)
            ELSE IF t \in {"RightParen", "RightBracket"} THEN Rhs(<<>>)
            ELSE NoProduction
      [] nt = "InputRest" ->
            IF t = "Comma" THEN Rhs(<<Terminal("Comma"), NT("InputList")>>)
            ELSE IF t \in {"RightParen", "RightBracket"} THEN Rhs(<<>>)
            ELSE NoProduction
      [] nt = "NodeBlock" ->
            IF t = "LeftBrace"
            THEN Rhs(<<Terminal("LeftBrace"), NT("TLStmtList"), Terminal("RightBrace")>>)
            ELSE NoProduction
      [] nt = "NodeHeader" ->
            IF t = "ID" THEN Rhs(<<NT("ID"), NT("OptIDList")>>) ELSE NoProduction
      [] nt = "NodeList" ->
            IF t = "ID" THEN Rhs(<<NT("ID"), NT("NodeRest")>>) ELSE NoProduction
      [] nt = "NodeNT" ->
            IF t = "Node"
            THEN Rhs(<<Terminal("Node"), NT("NodeHeader"), NT("NodeBlock")>>)
            ELSE NoProduction
      [] nt = "NodeRest" ->
            IF t = "Comma" THEN Rhs(<<Terminal("Comma"), NT("NodeList")>>)
            ELSE IF t = "LeftBrace" THEN Rhs(<<>>)
            ELSE NoProduction
      [] nt = "Primitive" ->
            IF t \in {"True", "False"} THEN Rhs(<<Terminal(t)>>)
            ELSE IF t = "Sub" THEN Rhs(<<Terminal("Sub"), NT("Positive")>>)
            ELSE IF t \in {"Integer", "Float"} THEN Rhs(<<NT("Positive")>>)
            ELSE NoProduction
      [] nt = "OptElse" ->
            IF t = "Else" THEN Rhs(<<Terminal("Else"), NT("Block")>>)
            ELSE IF t \in StmtStart \cup {"RightBrace"} THEN Rhs(<<>>)
            ELSE NoProduction
      [] nt = "OptIDList" ->
            IF t = "Colon" THEN Rhs(<<Terminal("Colon"), NT("NodeList")>>)
            ELSE IF t = "LeftBrace" THEN Rhs(<<>>)
            ELSE NoProduction
      [] nt = "OptIndex" ->
            IF t = "LeftBracket"
            THEN Rhs(<<Terminal("LeftBracket"), NT("Expression"), Terminal("RightBracket"),
                       NT("OptIndex")>>)
            ELSE IF t \in ExprFollow \cup {"Assign", "Mul", "Div", "Add", "Sub"} THEN Rhs(<<>>)
            ELSE NoProduction
      [] nt = "Param" ->
            IF t = "ID" THEN Rhs(<<NT("ID"), Terminal("Colon"), NT("Type")>>) ELSE NoProduction
      [] nt = "ParamList" ->
            IF t = "ID" THEN Rhs(<<NT("Param"), NT("ParamRest")>>)
            ELSE IF t = "RightParen" THEN Rhs(<<>>)
            ELSE NoProduction
      [] nt = "ParamRest" ->
            IF t = "Comma" THEN Rhs(<<Terminal("Comma"), NT("ParamList")>>)
            ELSE IF t = "RightParen" THEN Rhs(<<>>)
            ELSE NoProduction
      [] nt = "Positive" ->
            IF t \in {"Integer", "Float"} THEN Rhs(<<TerminalOf(tok)>>) ELSE NoProduction
      [] nt = "Program" ->
            IF t = "Node" THEN Rhs(<<NT("NodeNT"), NT("Program")>>)
            ELSE IF t = "None" THEN Rhs(<<>>)
            ELSE NoProduction
      [] nt = "ReturnType" ->
            IF t \in {"ID", "Int", "FloatKW", "Bool", "Char"} THEN Rhs(<<NT("Type")>>)
            ELSE IF t = "LeftParen" THEN Rhs(<<Terminal("LeftParen"), Terminal("RightParen")>>)
            ELSE IF t = "Not" THEN Rhs(<<Terminal("Not")>>)
            ELSE NoProduction
      [] nt = "Stmt" ->
            IF t \in {"Var", "Const"} THEN Rhs(<<NT("Definition")>>)
            ELSE IF t = "ID" THEN Rhs(<<NT("ID"), NT("AssignOrFnCall")>>)
            ELSE IF t = "While"
            THEN Rhs(<<Terminal("While"), NT("Conditional"), NT("Block")>>)
            ELSE IF t = "If"
            THEN Rhs(<<Terminal("If"), NT("Conditional"), NT("Block"), NT("OptElse")>>)
            ELSE IF t = "Return"
            THEN Rhs(<<Terminal("Return"), NT("Conditional"), Terminal("Semicolon")>>)
            ELSE NoProduction
      [] nt = "StmtList" ->
            IF t \in StmtStart THEN Rhs(<<NT("Stmt"), NT("StmtList")>>)
            ELSE IF t = "RightBrace" THEN Rhs(<<>>)
            ELSE NoProduction
      [] nt = "Term" ->
            IF t \in TermStart THEN Rhs(<<NT("Factor"), NT("Term1")>>)
            ELSE IF t = "Character" THEN Rhs(<<TerminalOf(tok)>>)
            ELSE NoProduction
      [] nt = "Term1" ->
            IF t \in {"Mul", "Div"} THEN Rhs(<<Terminal(t), NT("Factor"), NT("Term1")>>)
            ELSE IF t \in ExprFollow \cup {"Add", "Sub"} THEN Rhs(<<>>)
            ELSE NoProduction
      [] nt = "TLStmt" ->
            IF t = "Export" THEN Rhs(<<Terminal("Export"), NT("Definition")>>)
            ELSE IF t = "Fn" THEN Rhs(<<NT("Func")>>)
            ELSE NoProduction
      [] nt = "TLStmtList" ->
            IF t \in {"Fn", "Export"} THEN Rhs(<<NT("TLStmt"), NT("TLStmtList")>>)
            ELSE IF t = "RightBrace" THEN Rhs(<<>>)
            ELSE NoProduction
      [] nt = "Type" ->
            IF t = "ID" THEN Rhs(<<NT("ID")>>)
            ELSE IF t \in {"Int", "FloatKW", "Bool", "Char"} THEN Rhs(<<Terminal(t)>>)
            ELSE IF t = "LeftBracket"
            THEN Rhs(<<Terminal("LeftBracket"), NT("Type"), Terminal("Semicolon"), NT("ArrLen"),
                       Terminal("RightBracket")>>)
            ELSE NoProduction
      [] OTHER -> NoProduction

-----------------------------------------------------------------------------
(* The parse-tree arena.  Indices are the code's 0-based usize indices;     *)
(* node_list, adj_list and parents_list are sequences holding entry i at    *)
(* position i + 1.  An index with no adj_list entry holds <<>>, which is    *)
(* what get_children returns for it; index 0 has no parent (-1).            *)

ParseTree_new == [node_list |-> <<>>, adj_list |-> <<>>, parents_list |-> <<>>]

set_root(tree, sym) ==
    IF Len(tree.node_list) = 0
    THEN [node_list |-> <<sym>>, adj_list |-> <<(<<>>)>>, parents_list |-> <<-1>>]
    ELSE [tree EXCEPT !.node_list[1] = sym]

get_node(tree, idx) == tree.node_list[idx + 1]

get_children(tree, idx) == tree.adj_list[idx + 1]

add_child(tree, idx, sym) ==
    LET new_idx == Len(tree.node_list) IN
    [node_list |-> Append(tree.node_list, sym),
     adj_list |-> Append([tree.adj_list EXCEPT ![idx + 1] = Append(@, new_idx)], <<>>),
     parents_list |-> Append(tree.parents_list, idx)]

RECURSIVE add_children(_, _, _)
add_children(tree, idx, syms) ==
    IF syms = <<>> THEN tree
    ELSE add_children(add_child(tree, idx, Head(syms)), idx, Tail(syms))

\* the first sibling after idx (in the parent's child list) that is a nonterminal, or -1
NextNTAmong(tree, siblings, idx) ==
    LET after == {k \in 1..Len(siblings) :
                    /\ \E j \in 1..(k - 1) : siblings[j] = idx
                    /\ IsNonTerminal(get_node(tree, siblings[k]))}
    IN IF after = {} THEN -1
       ELSE siblings[CHOOSE k \in after : \A m \in after : k <= m]

\* one iteration of get_next_nt_sibling's loop on [idx, ret, done]: return 0 at the root
\* or past the arena, return the sibling found, or climb to the parent
SiblingStep(tree, st) ==
    IF st.idx >= Len(tree.node_list) \/ st.idx = 0 THEN [st EXCEPT !.ret = 0, !.done = TRUE]
    ELSE LET parent == tree.parents_list[st.idx + 1]
             found == NextNTAmong(tree, get_children(tree, parent), st.idx)
         IN IF found # -1 THEN [st EXCEPT !.ret = found, !.done = TRUE]
            ELSE [st EXCEPT !.idx = parent]

\* up to n iterations of the loop: the first half of them, then the rest unless it returned
RECURSIVE SiblingRun(_, _, _)
SiblingRun(tree, st, n) ==
    IF n <= 1 THEN SiblingStep(tree, st)
    ELSE LET mid == SiblingRun(tree, st, n \div 2) IN
         IF mid.done THEN mid ELSE SiblingRun(tree, mid, n - (n \div 2))

\* get_next_nt_sibling that returns 0 when idx has no later nonterminal sibling, without
\* climbing to the parent
get_next_nt_sibling_no_climb(tree, idx) ==
    SiblingRun(tree, [idx |-> idx, ret |-> 0, done |-> FALSE], 1).ret

\* the loop ends within one iteration per node: a parent is older than its children
get_next_nt_sibling(tree, idx) ==
    SiblingRun(tree, [idx |-> idx, ret |-> 0, done |-> FALSE], Len(tree.node_list) + 1).ret

-----------------------------------------------------------------------------
(* Parser::parse as a step function on its loop state.  One step is one    *)
(* iteration of the inner `while !stack.is_empty()` loop: it pops the top  *)
(* symbol.  pos is the 1-based position of the lookahead in the input; a   *)
(* matched terminal breaks to the outer loop, which fetches the next token. *)

Lookahead(toks, pos) == IF pos <= Len(toks) THEN toks[pos] ELSE NoToken

Reverse(s) == [i \in 1..Len(s) |-> s[Len(s) + 1 - i]]

FirstNT(syms) ==
    LET nts == {k \in 1..Len(syms) : IsNonTerminal(syms[k])}
    IN IF nts = {} THEN 0 ELSE CHOOSE k \in nts : \A m \in nts : k <= m

Parser_new ==
    [stack |-> <<End, NT("Program")>>,
     parse_tree |-> set_root(ParseTree_new, NT("Program")),
     idx |-> 0,
     pos |-> 1,
     result |-> "running",
     error |-> ""]

\* std::mem::discriminant(&token) == std::mem::discriminant(&Some(t)): both sides are
\* Option<Token>, so the comparison is of the Option's variant
TerminalMatches(tok, sym) == tok.t # "None"

\* the `_` arm of a nonterminal's match: return Err(..); the arm of Term1 first prints
\* token.unwrap(), which panics when the lookahead is None
NoProductionResult(nt, tok) == IF nt = "Term1" /\ tok.t = "None" THEN "panic" ELSE "error"

ParseStep(toks, ps) ==
    LET token == Lookahead(toks, ps.pos)
        top == ps.stack[Len(ps.stack)]
        rest == SubSeq(ps.stack, 1, Len(ps.stack) - 1)
    IN
    CASE top.kind = "Terminal" ->
            IF TerminalMatches(token, top)
            THEN [ps EXCEPT !.stack = rest, !.pos = @ + 1]
            ELSE [ps EXCEPT !.stack = rest, !.result = "error", !.error = "syntax error 1"]
      [] top.kind = "Empty" -> [ps EXCEPT !.stack = rest]
      [] top.kind = "End" ->
            IF token.t = "None"
            THEN [ps EXCEPT !.stack = rest,
                            !.result = IF rest = <<>> THEN "ok" ELSE "running"]
            ELSE [ps EXCEPT !.stack = rest, !.result = "error", !.error = "syntax error 3"]
      [] OTHER ->
            LET p == Production(top.sym, token) IN
            IF ~p.ok
            THEN [ps EXCEPT !.stack = rest, !.result = NoProductionResult(top.sym, token),
                            !.error = top.sym]
            ELSE IF Len(p.rhs) = 0
            THEN LET t1 == add_child(ps.parse_tree, ps.idx, Empty) IN
                 [ps EXCEPT !.stack = rest, !.parse_tree = t1,
                            !.idx = get_next_nt_sibling(t1, ps.idx)]
            ELSE LET base == Len(ps.parse_tree.node_list)
                     t1 == add_children(ps.parse_tree, ps.idx, p.rhs)
                     k == FirstNT(p.rhs)
                 IN [ps EXCEPT !.stack = rest \o Reverse(p.rhs), !.parse_tree = t1,
                               !.idx = IF k # 0 THEN base + k - 1
                                       ELSE get_next_nt_sibling(t1, ps.idx)]

\* up to n iterations of parse's loop from a state in which it is running, n a power of
\* four: a quarter of them at a time, until the loop has returned
RECURSIVE ParseRun(_, _, _)
ParseRun(toks, ps, n) ==
    IF n = 1 THEN ParseStep(toks, ps)
    ELSE LET q1 == ParseRun(toks, ps, n \div 4)
             q2 == ParseRun(toks, q1, n \div 4)
             q3 == ParseRun(toks, q2, n \div 4)
         IN CASE q1.result # "running" -> q1
              [] q2.result # "running" -> q2
              [] q3.result # "running" -> q3
              [] OTHER -> ParseRun(toks, q3, n \div 4)

\* the loop run until it returns
RECURSIVE ParseAll(_, _)
ParseAll(toks, ps) ==
    LET ran == ParseRun(toks, ps, 1024) IN
    IF ran.result # "running" THEN ran ELSE ParseAll(toks, ran)

-----------------------------------------------------------------------------
(* The AST and the left-associativity rebalancers.                          *)

Ast(node, children) == [node |-> node, name |-> EmptyStr, num |-> 0, children |-> children]
AbstractSyntaxTree_new == Ast("Null", <<>>)
Leaf(node, name, num) == [node |-> node, name |-> name, num |-> num, children |-> <<>>]
Identifier(id) == Leaf("Identifier", id, 0)

\* Vec::insert(0, x) and Vec::remove(1)
Insert0(children, x) == <<x>> \o children
Remove1(children) == <<children[1]>> \o SubSeq(children, 3, Len(children))

\* first loop of a rebalancer: walk the right spine, pushing each operator of the class
\* without its right child, and last the node the walk stops at
RECURSIVE RightSpine(_, _)
RightSpine(root, ops) ==
    IF Len(root.children) > 1 /\ root.node \in ops
    THEN <<[root EXCEPT !.children = Remove1(@)]>> \o RightSpine(root.children[2], ops)
    ELSE <<root>>

\* second loop: fold the queue from the front
RECURSIVE FoldSpine(_, _, _)
FoldSpine(tree, queue, ops) ==
    IF queue = <<>> THEN tree
    ELSE LET front == Head(queue) IN
         IF Len(front.children) > 0 /\ front.node \in ops
         THEN FoldSpine([front EXCEPT !.children =
                            <<[tree EXCEPT !.children = Append(@, front.children[1])]>>],
                        Tail(queue), ops)
         ELSE FoldSpine([tree EXCEPT !.children = Append(@, front)], Tail(queue), ops)

\* a lowering that leaves out the rebalancing pass: the right-leaning chain is kept
rebalance_tree_skipped(tree, ops) == tree

rebalance_tree(tree, ops) ==
    LET stack == RightSpine(tree, ops) IN FoldSpine(Head(stack), Tail(stack), ops)

rebalance_expression_tree(tree) == rebalance_tree(tree, {"AddOp", "SubOp"})
rebalance_term_tree(tree) == rebalance_tree(tree, {"MulOp", "DivOp"})
rebalance_comparison_tree(tree) == rebalance_tree(tree, {"OrOp"})
rebalance_bool_term_tree(tree) == rebalance_tree(tree, {"AndOp"})

-----------------------------------------------------------------------------
(* Parser::build_ast_from_parse_node: the parse tree lowered to the AST.    *)

\* format!("[{}; {}]", t, len)
FormatArrayType(t, len) == <<"[">> \o t \o <<";", " ", ToString(len), "]">>

PrimitiveTypeName(tag) ==
    CASE tag = "Int" -> "int" [] tag = "FloatKW" -> "float"
      [] tag = "Bool" -> "bool" [] OTHER -> "char"

CompNode(tag) ==
    CASE tag = "Equals" -> "CompEq" [] tag = "Neq" -> "CompNeq" [] tag = "Less" -> "CompLess"
      [] tag = "Greater" -> "CompGreater" [] tag = "Leq" -> "CompLeq" [] OTHER -> "CompGeq"

\* the arms of Expression1 / Term1 / Conditional1 / BoolTerm1 for one operator:
\* rest is the lowered tail (children[2]), operand the lowered operand (children[1])
OperatorTail(op, ops, operand, rest) ==
    IF rest.node \in ops
    THEN Ast(op, <<[rest EXCEPT !.children = Insert0(@, operand)]>>)
    ELSE Ast(op, <<operand>>)

RECURSIVE build_ast_from_parse_node(_, _)
build_ast_from_parse_node(pt, idx) ==
    LET node == get_node(pt, idx)
        children == get_children(pt, idx)
        c(i) == children[i + 1]
        b(i) == build_ast_from_parse_node(pt, c(i))
        first == get_node(pt, c(0))
        isT(s, tag) == s.kind = "Terminal" /\ s.sym = tag
        isN(s, nt) == s.kind = "NT" /\ s.sym = nt
        tree == AbstractSyntaxTree_new
    IN
    IF node.kind = "Terminal" THEN
        IF node.sym = "ID" THEN Identifier(node.name)
        ELSE IF node.sym \in CompTokens THEN Ast(CompNode(node.sym), <<>>)
        ELSE tree
    ELSE IF node.kind # "NT" THEN tree
    ELSE
    CASE node.sym = "ID" -> b(0)
      [] node.sym = "NodeHeader" -> Ast("NodeHeader", <<b(0), b(1)>>)
      [] node.sym = "OptIDList" -> IF Len(children) = 1 THEN tree ELSE b(1)
      [] node.sym = "NodeList" -> Ast("NodeList", <<b(0), b(1)>>)
      [] node.sym = "NodeRest" -> IF isT(first, "Comma") THEN b(1) ELSE tree
      [] node.sym = "NodeNT" -> Ast("DeclareNode", <<b(1), b(2)>>)
      [] node.sym = "Program" -> IF isN(first, "NodeNT") THEN Ast("NodeSeq", <<b(0), b(1)>>) ELSE tree
      [] node.sym = "NodeBlock" -> b(1)
      [] node.sym = "TLStmtList" ->
            IF isN(first, "TLStmt") THEN Ast("TLStmtSeq", <<b(0), b(1)>>) ELSE tree
      [] node.sym = "TLStmt" -> IF isN(first, "Func") THEN b(0) ELSE tree
      [] node.sym = "Func" -> Ast("DeclareFunc", <<b(1), b(3), b(6), b(7)>>)
      [] node.sym = "ParamList" ->
            IF isN(first, "Param") THEN Ast("ParamList", <<b(0), b(1)>>) ELSE tree
      [] node.sym = "Param" -> Ast("Param", <<b(0), b(2)>>)
      [] node.sym = "ParamRest" -> IF isT(first, "Comma") THEN b(1) ELSE tree
      [] node.sym = "ReturnType" ->
            IF isN(first, "Type") THEN Ast("ReturnType", <<b(0)>>)
            ELSE IF isT(first, "LeftParen") THEN Ast("ReturnType", <<Ast("Void", <<>>)>>)
            ELSE Ast("ReturnType", <<Ast("NoReturn", <<>>)>>)
      [] node.sym = "Type" ->
            IF isN(first, "ID") THEN b(0)
            ELSE IF first.kind = "Terminal" /\ first.sym \in {"Int", "FloatKW", "Bool", "Char"}
            THEN Identifier(Str(PrimitiveTypeName(first.sym)))
            ELSE IF isT(first, "LeftBracket")
            THEN LET t == IF b(1).node = "Identifier" THEN b(1).name ELSE EmptyStr
                     len == IF b(3).node = "Integer" THEN b(3).num ELSE 0
                 IN Identifier(FormatArrayType(t, len))
            ELSE tree
      [] node.sym = "Array" -> b(1)
      [] node.sym = "ArrLen" ->
            IF isT(first, "Integer") THEN Leaf("Integer", EmptyStr, first.num) ELSE tree
      [] node.sym = "OptIndex" ->
            IF isT(first, "LeftBracket")
            THEN Ast("Index", IF Len(children) > 3 THEN <<b(1), b(3)>> ELSE <<b(1)>>)
            ELSE tree
      [] node.sym = "Block" -> b(1)
      [] node.sym = "StmtList" ->
            IF first.kind = "Empty" THEN tree ELSE Ast("StmtSeq", <<b(0), b(1)>>)
      [] node.sym = "CondOrArr" -> IF isT(first, "LeftBracket") THEN tree ELSE b(0)
      [] node.sym = "Stmt" ->
            IF isT(first, "If") THEN Ast("IfStmt", <<b(1), b(2), b(3)>>)
            ELSE IF isN(first, "Definition") THEN b(0)
            ELSE IF isT(first, "While") THEN Ast("WhileLoop", <<b(1), b(2)>>)
            ELSE IF isN(first, "ID") THEN [b(1) EXCEPT !.children = Insert0(@, b(0))]
            ELSE IF isT(first, "Return") THEN Ast("ReturnValue", <<b(1)>>)
            ELSE tree
      [] node.sym = "Definition" ->
            IF isT(first, "Const") THEN Ast("DeclareConst", <<b(1), b(3), b(5)>>)
            ELSE IF isT(first, "Var") THEN Ast("DeclareVar", <<b(1), b(3), b(5)>>)
            ELSE tree
      [] node.sym = "OptElse" -> IF isT(first, "Else") THEN b(1) ELSE tree
      [] node.sym = "AssignOrFnCall" ->
            IF isT(first, "LeftParen") THEN Ast("FnCall", <<b(1)>>)
            ELSE IF isN(first, "OptIndex") THEN Ast("Assign", <<b(0), b(2)>>)
            ELSE tree
      [] node.sym = "Expression" ->
            IF b(1).node \in {"AddOp", "SubOp"}
            THEN rebalance_expression_tree([b(1) EXCEPT !.children = Insert0(@, b(0))])
            ELSE b(0)
      [] node.sym = "Expression1" ->
            IF isT(first, "Add") THEN OperatorTail("AddOp", {"AddOp", "SubOp"}, b(1), b(2))
            ELSE IF isT(first, "Sub") THEN OperatorTail("SubOp", {"AddOp", "SubOp"}, b(1), b(2))
            ELSE tree
      [] node.sym = "Term" ->
            IF isN(first, "Factor")
            THEN IF b(1).node \in {"MulOp", "DivOp"}
                 THEN rebalance_term_tree([b(1) EXCEPT !.children = Insert0(@, b(0))])
                 ELSE b(0)
            ELSE IF isT(first, "Character") THEN Leaf("Character", EmptyStr, first.num)
            ELSE tree
      [] node.sym = "Term1" ->
            IF isT(first, "Mul") THEN OperatorTail("MulOp", {"MulOp", "DivOp"}, b(1), b(2))
            ELSE IF isT(first, "Div") THEN OperatorTail("DivOp", {"MulOp", "DivOp"}, b(1), b(2))
            ELSE tree
      [] node.sym = "Factor" ->
            IF isN(first, "Primitive") THEN b(0)
            ELSE IF isN(first, "ID")
            THEN IF b(1).node = "Null" THEN b(0)
                 ELSE IF b(1).node = "Index" THEN [b(0) EXCEPT !.children = <<b(1)>>]
                 ELSE IF b(1).node = "InputList" THEN Ast("FnCall", <<b(0), b(1)>>)
                 ELSE tree
            ELSE IF isT(first, "LeftParen") THEN b(1)
            ELSE tree
      [] node.sym = "Primitive" ->
            IF isT(first, "Sub")
            THEN IF b(1).node = "Integer" THEN Leaf("Integer", EmptyStr, (-1) * b(1).num)
                 ELSE IF b(1).node = "Float" THEN Leaf("Float", EmptyStr, (-1) * b(1).num)
                 ELSE tree
            ELSE IF isN(first, "Positive") THEN b(0)
            ELSE IF isT(first, "True") THEN Ast("True", <<>>)
            ELSE IF isT(first, "False") THEN Ast("False", <<>>)
            ELSE tree
      [] node.sym = "Positive" ->
            IF isT(first, "Integer") THEN Leaf("Integer", EmptyStr, first.num)
            ELSE IF isT(first, "Float") THEN Leaf("Float", EmptyStr, first.num)
            ELSE tree
      [] node.sym = "IDOrFn" ->
            IF Len(children) = 1
            THEN IF isN(first, "OptIndex") THEN b(0) ELSE tree
            ELSE b(1)
      [] node.sym = "Conditional" ->
            IF b(1).node = "OrOp"
            THEN rebalance_comparison_tree([b(1) EXCEPT !.children = Insert0(@, b(0))])
            ELSE b(0)
      [] node.sym = "Conditional1" ->
            IF isT(first, "LogicalOr") THEN OperatorTail("OrOp", {"OrOp"}, b(1), b(2))
            ELSE tree
      [] node.sym = "BoolTerm" ->
            IF b(1).node = "AndOp"
            THEN rebalance_bool_term_tree([b(1) EXCEPT !.children = Insert0(@, b(0))])
            ELSE b(0)
      [] node.sym = "BoolTerm1" ->
            IF isT(first, "LogicalAnd") THEN OperatorTail("AndOp", {"AndOp"}, b(1), b(2))
            ELSE tree
      [] node.sym = "BoolExpr" ->
            IF b(1).node = "Null" THEN b(0)
            ELSE [b(1) EXCEPT !.children = Insert0(@, b(0))]
      [] node.sym = "Comparison" ->
            IF first.kind = "Empty" THEN tree
            ELSE [b(0) EXCEPT !.children = <<b(1)>>]
      [] node.sym = "InputList" ->
            IF first.kind = "Empty" THEN tree
            ELSE IF isN(first, "CondOrArr") THEN Ast("InputList", <<b(0), b(1)>>)
            ELSE tree
      [] node.sym = "InputRest" ->
            IF isT(first, "Comma") THEN b(1) ELSE tree
      [] OTHER -> tree

-----------------------------------------------------------------------------
(* Source: the symbol table (src/src/source.rs).  A Result is a record      *)
(* [code, val]: code 0 is Ok(val), another code is Err(code), and -1 is a   *)
(* panic (an index out of bounds, an unwrap of None).                       *)

Ok(v) == [code |-> 0, val |-> v]
Err(c) == [code |-> c, val |-> EmptyStr]
Panicked == Err(-1)

IdOf(a) == IF a.node = "Identifier" THEN a.name ELSE EmptyStr

\* Vec::contains
Contains(seq, x) == \E i \in 1..Len(seq) : seq[i] = x

Range(seq) == {seq[i] : i \in 1..Len(seq)}

Perms(S) == {f \in [1..Cardinality(S) -> S] : \A i, j \in 1..Cardinality(S) : f[i] = f[j] => i = j}

\* sst_func: the parameter list of a DeclareFunc, as the Vec the code builds
RECURSIVE sst_func(_)
sst_func(a) ==
    IF a.node = "ParamList"
    THEN LET param == sst_func(a.children[1])
             rest == sst_func(a.children[2])
         IN IF param.code # 0 THEN param
            ELSE IF rest.code # 0 THEN rest
            ELSE IF \E i \in 1..Len(param.val) : Contains(rest.val, param.val[i]) THEN Err(3)
            ELSE Ok(rest.val \o param.val)
    ELSE IF a.node = "Param"
    THEN Ok(<<(<<IdOf(a.children[1]), IdOf(a.children[2])>>)>>)
    ELSE Ok(<<>>)

\* the return type sst_node records: a type name, "!" or ""
ReturnTypeOf(rt) ==
    LET r == rt.children[1] IN
    IF r.node = "Identifier" THEN r.name
    ELSE IF r.node = "NoReturn" THEN Str("!")
    ELSE EmptyStr

\* sst_node: the functions of one node's block are entered under node_id; st is the
\* Result so far, val the symbol table (a function from node names to name -> entry)
RECURSIVE sst_node(_, _, _)
RECURSIVE sst_children(_, _, _, _)
sst_node(st, a, node_id) ==
    IF st.code # 0 THEN st
    ELSE IF a.node = "DeclareFunc"
    THEN LET id == IdOf(a.children[1])
             params == sst_func(a.children[2])
             map == IF node_id \in DOMAIN st.val THEN st.val[node_id] ELSE <<>>
         IN IF params.code # 0 THEN Err(params.code)
            ELSE IF id \in DOMAIN map THEN Err(2)
            ELSE LET entry == [ret |-> ReturnTypeOf(a.children[3]),
                               params |-> params.val,
                               set |-> Range(params.val),
                               tree |-> a.children[4]]
                     map1 == [k \in DOMAIN map \cup {id} |-> IF k = id THEN entry ELSE map[k]]
                 IN Ok([k \in DOMAIN st.val \cup {node_id} |->
                            IF k = node_id THEN map1 ELSE st.val[k]])
    ELSE sst_children(st, a.children, 1, node_id)

sst_children(st, children, i, node_id) ==
    IF i > Len(children) THEN st
    ELSE sst_children(sst_node(st, children[i], node_id), children, i + 1, node_id)

RECURSIVE seed_symbol_table(_, _)
RECURSIVE seed_children(_, _, _)
seed_symbol_table(st, a) ==
    IF st.code # 0 THEN st
    ELSE IF a.node = "DeclareNode"
    THEN LET id == IdOf(a.children[1].children[1]) IN
         IF id \in DOMAIN st.val THEN Err(1)
         ELSE sst_node(st, a.children[2], id)
    ELSE seed_children(st, a.children, 1)

seed_children(st, children, i) ==
    IF i > Len(children) THEN st
    ELSE seed_children(seed_symbol_table(st, children[i]), children, i + 1)

\* add_dependencies: the identifiers of a node header's list, appended to graph[id]
RECURSIVE add_dependencies(_, _, _)
add_dependencies(graph, id, a) ==
    IF a.node = "Identifier" THEN [graph EXCEPT ![id] = Append(@, a.name)]
    ELSE IF a.node = "Null" THEN graph
    ELSE add_dependencies(add_dependencies(graph, id, a.children[1]), id, a.children[2])

RECURSIVE create_node_graph(_, _)
create_node_graph(graph, a) ==
    CASE a.node = "NodeSeq" ->
            create_node_graph(create_node_graph(graph, a.children[1]), a.children[2])
      [] a.node = "DeclareNode" -> create_node_graph(graph, a.children[1])
      [] a.node = "NodeHeader" ->
            LET id == IdOf(a.children[1])
                inserted == [k \in DOMAIN graph \cup {id} |-> IF k = id THEN <<>> ELSE graph[k]]
            IN add_dependencies(inserted, id, a.children[2])
      [] OTHER -> graph

\* the (node, function) keys of the symbol table
TableKeys(table) ==
    UNION {{<<n, f>> : f \in DOMAIN table[n]} : n \in DOMAIN table}

\* the (tl_id, ret, params) triples check_semantics and generate_bytecode collect, in
\* the order `keys` (the iteration order of the two HashMaps)
FunctionsIn(table, keys) ==
    [i \in 1..Len(keys) |->
        <<keys[i][2], table[keys[i][1]][keys[i][2]].ret, table[keys[i][1]][keys[i][2]].params>>]

-----------------------------------------------------------------------------
(* Scope resolution: check_semantics_helper as a machine.  The recursion    *)
(* is kept as a list of pending tasks (the continuation), first task first: *)
(*   visit   - the call check_semantics_helper(stack, var_set, ast)         *)
(*   declare - the duplicate check and the push of DeclareConst/DeclareVar  *)
(*   assign  - the target check of Assign                                   *)
(*   resolve - the lookup of an Identifier                                  *)
(*   callee  - the lookup of a FnCall's callee                              *)
(*   pop     - the pop-to-marker loop ending a while/if/else block          *)
(*   else    - the else part of an IfStmt                                   *)
(* A pop task also carries `before`, the scope stack as it was when the     *)
(* block's marker was pushed: history kept for the properties, which the    *)
(* step never reads.                                                        *)

ScopeElem(kind, name) == [kind |-> kind, name |-> name]
Marker(kind) == ScopeElem(kind, EmptyStr)

Task(op, a, kind, name, ty, before) ==
    [op |-> op, ast |-> a, kind |-> kind, name |-> name, ty |-> ty, before |-> before]
Visit(a) == Task("visit", a, "", EmptyStr, EmptyStr, <<>>)
VisitAll(children) == [i \in 1..Len(children) |-> Visit(children[i])]

OnStack(stack, elem) == \E i \in 1..Len(stack) : stack[i] = elem

\* a block end that pops the top element only
PopTo_top(stack, marker) == IF stack = <<>> THEN stack ELSE SubSeq(stack, 1, Len(stack) - 1)

\* while !stack.is_empty() { top = pop_back(); if top == marker { break } }
RECURSIVE PopTo(_, _)
PopTo(stack, marker) ==
    IF stack = <<>> THEN stack
    ELSE IF stack[Len(stack)] = marker THEN SubSeq(stack, 1, Len(stack) - 1)
    ELSE PopTo(SubSeq(stack, 1, Len(stack) - 1), marker)

BinaryNodes == {"AddOp", "SubOp", "MulOp", "DivOp", "AndOp", "OrOp", "CompEq", "CompNeq",
                "CompLeq", "CompGeq", "CompLess", "CompGreater", "Index"}
Builtins == {Str("print_int"), Str("print_float"), Str("print_bool"), Str("print_char"),
             Str("println")}

\* the state of one check_semantics_helper run: the scope stack, the function's locals
\* set, the pending tasks and the Result (code 0 while no error was returned)
ScopeState(stack, var_set, work, code) ==
    [stack |-> stack, var_set |-> var_set, work |-> work, code |-> code]

Fail(s, c) == [s EXCEPT !.work = <<>>, !.code = c]

\* the arm of check_semantics_helper's match that a visit of `a` runs, up to its first
\* recursive call
VisitStep(s, a, rest) ==
    LET ch == a.children IN
    CASE a.node \in {"DeclareConst", "DeclareVar"} ->
            [s EXCEPT !.work = <<Visit(ch[3]),
                                 Task("declare", a, IF a.node = "DeclareConst" THEN "Const"
                                                    ELSE "Variable",
                                      IdOf(ch[1]), IdOf(ch[2]), <<>>)>> \o rest]
      [] a.node = "Assign" ->
            [s EXCEPT !.work = <<Visit(ch[2]), Visit(ch[3]),
                                 Task("assign", a, "", IdOf(ch[1]), EmptyStr, <<>>)>> \o rest]
      [] a.node = "WhileLoop" ->
            [s EXCEPT !.stack = Append(@, Marker("WhileScope")),
                      !.work = <<Visit(ch[2]),
                                 Task("pop", a, "WhileScope", EmptyStr, EmptyStr, s.stack)>>
                               \o rest]
      [] a.node = "IfStmt" ->
            [s EXCEPT !.stack = Append(@, Marker("IfScope")),
                      !.work = <<Visit(ch[2]),
                                 Task("pop", a, "IfScope", EmptyStr, EmptyStr, s.stack),
                                 Task("else", ch[3], "", EmptyStr, EmptyStr, <<>>)>> \o rest]
      [] a.node = "ParamList" ->
            [s EXCEPT !.stack = Append(@, ScopeElem("Variable", IdOf(ch[1].children[1]))),
                      !.work = <<Visit(ch[2])>> \o rest]
      [] a.node \in BinaryNodes ->
            [s EXCEPT !.work = <<Visit(ch[1]), Visit(ch[2])>> \o rest]
      [] a.node = "Identifier" ->
            [s EXCEPT !.work = (IF Len(ch) > 0 THEN <<Visit(ch[1])>> ELSE <<>>)
                               \o <<Task("resolve", a, "", a.name, EmptyStr, <<>>)>> \o rest]
      [] a.node = "FnCall" ->
            [s EXCEPT !.work = <<Visit(ch[2]),
                                 Task("callee", a, "", IdOf(ch[1]), EmptyStr, <<>>)>> \o rest]
      [] OTHER -> [s EXCEPT !.work = VisitAll(ch) \o rest]

\* a duplicate check that looks for Variable markers only
DeclareStep_variables_only(s, t, rest) ==
    IF OnStack(s.stack, ScopeElem("Variable", t.name))
    THEN Fail(s, IF t.kind = "Const" THEN 4 ELSE 5)
    ELSE [s EXCEPT !.var_set = @ \cup {<<t.name, t.ty>>},
                   !.stack = Append(@, ScopeElem(t.kind, t.name)),
                   !.work = rest]

\* DeclareConst / DeclareVar after the initializer: Err(4) / Err(5) when the name is a
\* Variable or a Const on the stack, else the local is recorded and its marker pushed
DeclareStep(s, t, rest) ==
    IF OnStack(s.stack, ScopeElem("Const", t.name)) \/ OnStack(s.stack, ScopeElem("Variable", t.name))
    THEN Fail(s, IF t.kind = "Const" THEN 4 ELSE 5)
    ELSE [s EXCEPT !.var_set = @ \cup {<<t.name, t.ty>>},
                   !.stack = Append(@, ScopeElem(t.kind, t.name)),
                   !.work = rest]

\* a target check that takes a Const for a Variable
AssignStep_const_too(s, t, rest) ==
    IF OnStack(s.stack, ScopeElem("Variable", t.name)) \/ OnStack(s.stack, ScopeElem("Const", t.name))
    THEN [s EXCEPT !.work = rest]
    ELSE Fail(s, 16)

\* Assign after its index and right-hand side
AssignStep(s, t, rest) ==
    IF OnStack(s.stack, ScopeElem("Variable", t.name))
    THEN [s EXCEPT !.work = rest]
    ELSE Fail(s, 16)

\* Identifier after its index
ResolveStep(s, t, rest) ==
    IF OnStack(s.stack, ScopeElem("Variable", t.name)) \/ OnStack(s.stack, ScopeElem("Const", t.name))
    THEN [s EXCEPT !.work = rest]
    ELSE Fail(s, 6)

\* FnCall after its inputs
CalleeStep(s, t, rest) ==
    IF t.name \in Builtins \/ OnStack(s.stack, ScopeElem("Func", t.name))
    THEN [s EXCEPT !.work = rest]
    ELSE Fail(s, 7)

PopStep(s, t, rest) ==
    [s EXCEPT !.stack = PopTo(@, Marker(t.kind)), !.work = rest]

\* IfStmt after the then block: the else block, when there is one
ElseStep(s, t, rest) ==
    IF t.ast.node # "Null"
    THEN [s EXCEPT !.stack = Append(@, Marker("ElseScope")),
                   !.work = <<Visit(t.ast),
                              Task("pop", t.ast, "ElseScope", EmptyStr, EmptyStr, s.stack)>>
                            \o rest]
    ELSE [s EXCEPT !.work = rest]

ScopeStep(s) ==
    LET t == Head(s.work)
        rest == Tail(s.work)
    IN CASE t.op = "visit" -> VisitStep(s, t.ast, rest)
         [] t.op = "declare" -> DeclareStep(s, t, rest)
         [] t.op = "assign" -> AssignStep(s, t, rest)
         [] t.op = "resolve" -> ResolveStep(s, t, rest)
         [] t.op = "callee" -> CalleeStep(s, t, rest)
         [] t.op = "pop" -> PopStep(s, t, rest)
         [] OTHER -> ElseStep(s, t, rest)

-----------------------------------------------------------------------------
(* Type checking.  var_set is a HashSet of (name, type) pairs that the code *)
(* searches by iterating it; `first` gives, for each name of the set, the   *)
(* type of the pair the iteration meets first.                              *)

T_int == Str("int")
T_float == Str("float")
T_bool == Str("bool")
T_char == Str("char")

\* the choices of `first` that some iteration order of var_set produces
FirstChoices(var_set) ==
    {f \in [{v[1] : v \in var_set} -> {v[2] : v \in var_set}] :
        \A n \in DOMAIN f : <<n, f[n]>> \in var_set}

\* str::rfind, as a 0-based position or -1 for None
RFind(str, x) ==
    IF \E i \in 1..Len(str) : str[i] = x
    THEN (CHOOSE i \in 1..Len(str) : str[i] = x /\ \A j \in (i + 1)..Len(str) : str[j] # x) - 1
    ELSE -1

RECURSIVE get_indexed(_, _)
get_indexed(l_value, a) ==
    IF a.node = "Index"
    THEN LET indexed_l_value == get_indexed(l_value, a.children[2]) IN
         IF indexed_l_value.code # 0 THEN indexed_l_value
         ELSE IF a.children[1].node = "Integer" /\ a.children[1].num < 0 THEN Err(22)
         ELSE LET last_semicolon == RFind(indexed_l_value.val, ";") IN
              IF last_semicolon = -1 THEN Err(23)
              ELSE IF last_semicolon < 1 THEN Panicked
              ELSE Ok(SubSeq(indexed_l_value.val, 2, last_semicolon))
    ELSE Ok(l_value)

AllSame(types) == \A i \in 1..Len(types) : types[i] = types[1]

ParamTypes(fn_params) == [i \in 1..Len(fn_params) |-> fn_params[i][2]]

ArithNodes == {"AddOp", "SubOp", "DivOp", "MulOp"}
CompNodes == {"CompEq", "CompNeq", "CompLess", "CompGreater", "CompLeq", "CompGeq"}
PrintBuiltins == {Str("print_int"), Str("print_float"), Str("print_bool"), Str("print_char")}

RECURSIVE get_type(_, _, _)
RECURSIVE get_inputs(_, _, _)
get_type(functions, first, a) ==
    LET ch == a.children IN
    CASE a.node \in ArithNodes \cup CompNodes \cup {"AndOp", "OrOp"} ->
            LET l_value == get_type(functions, first, ch[1]) IN
            IF l_value.code # 0 THEN l_value
            ELSE LET r_value == get_type(functions, first, ch[2]) IN
                 IF r_value.code # 0 THEN r_value
                 ELSE IF a.node \in ArithNodes
                 THEN IF l_value.val = r_value.val /\ l_value.val \in {T_int, T_float, T_char}
                      THEN Ok(l_value.val) ELSE Err(11)
                 ELSE IF a.node \in CompNodes
                 THEN IF l_value.val = r_value.val /\ l_value.val \in {T_int, T_float, T_char}
                      THEN Ok(T_bool) ELSE Err(11)
                 ELSE IF l_value.val = r_value.val /\ l_value.val = T_bool
                      THEN Ok(l_value.val) ELSE Err(11)
      [] a.node = "Index" ->
            LET l_value == get_type(functions, first, ch[1]) IN
            IF l_value.code # 0 THEN l_value
            ELSE LET r_value == IF ch[2].node # "Null" THEN get_type(functions, first, ch[2])
                                ELSE l_value
                 IN IF r_value.code # 0 THEN r_value
                    ELSE IF l_value.val = r_value.val /\ l_value.val = T_int
                    THEN Ok(l_value.val) ELSE Err(23)
      [] a.node = "Identifier" ->
            LET idx == IF Len(ch) > 0 THEN get_type(functions, first, ch[1]) ELSE Ok(EmptyStr) IN
            IF idx.code # 0 THEN idx
            ELSE IF a.name \in DOMAIN first
            THEN IF Len(ch) > 0 THEN get_indexed(first[a.name], ch[1]) ELSE Ok(first[a.name])
            ELSE Err(12)
      [] a.node = "InputList" ->
            LET inputs == get_inputs(functions, first, a) IN
            IF inputs.code # 0 THEN inputs
            ELSE IF inputs.val = <<>> THEN Panicked
            ELSE IF ~AllSame(inputs.val) THEN Err(21)
            ELSE Ok(FormatArrayType(inputs.val[1], Len(inputs.val)))
      [] a.node = "Integer" -> Ok(T_int)
      [] a.node = "Float" -> Ok(T_float)
      [] a.node \in {"True", "False"} -> Ok(T_bool)
      [] a.node = "Character" -> Ok(T_char)
      [] a.node = "FnCall" ->
            LET params == get_inputs(functions, first, ch[2]) IN
            IF params.code # 0 THEN params
            ELSE IF ch[1].node = "Identifier"
            THEN LET id == ch[1].name
                     hits == {i \in 1..Len(functions) :
                                 functions[i][1] = id /\ ParamTypes(functions[i][3]) = params.val}
                 IN IF hits # {}
                    THEN Ok(functions[CHOOSE i \in hits : \A j \in hits : i <= j][2])
                    ELSE IF id \in PrintBuiltins THEN Ok(T_int)
                    ELSE Err(13)
            ELSE Ok(EmptyStr)
      [] OTHER -> Ok(EmptyStr)

get_inputs(functions, first, a) ==
    IF a.node = "Null" THEN Ok(<<>>)
    ELSE LET elem == a.children[1]
             ret == CASE elem.node = "InputList" ->
                            LET t == get_inputs(functions, first, elem) IN
                            IF t.code # 0 THEN t
                            ELSE IF t.val = <<>> THEN Panicked
                            ELSE IF ~AllSame(t.val) THEN Err(21)
                            ELSE Ok(<<FormatArrayType(t.val[1], Len(t.val))>>)
                      [] elem.node = "Integer" -> Ok(<<T_int>>)
                      [] elem.node = "Float" -> Ok(<<T_float>>)
                      [] elem.node = "Character" -> Ok(<<T_char>>)
                      [] elem.node \in {"True", "False"} -> Ok(<<T_bool>>)
                      [] elem.node = "Identifier" ->
                            IF elem.name \in DOMAIN first THEN Ok(<<first[elem.name]>>)
                            ELSE Ok(<<>>)
                      [] elem.node \in ArithNodes ->
                            LET t == get_type(functions, first, elem) IN
                            IF t.code # 0 THEN t ELSE Ok(<<t.val>>)
                      [] OTHER -> Ok(<<>>)
         IN IF ret.code # 0 THEN ret
            ELSE LET rest == get_inputs(functions, first, a.children[2]) IN
                 IF rest.code # 0 THEN rest
                 ELSE Ok(ret.val \o rest.val)

\* check_types returns the error code, 0 for Ok(())
RECURSIVE check_types(_, _, _)
RECURSIVE check_types_children(_, _, _, _)
check_types(functions, first, a) ==
    LET ch == a.children IN
    CASE a.node \in {"DeclareVar", "DeclareConst"} ->
            LET l_value == IdOf(ch[2])
                r_value == get_type(functions, first, ch[3])
            IN IF r_value.code # 0 THEN r_value.code
               ELSE IF l_value # r_value.val THEN 8
               ELSE 0
      [] a.node = "Assign" ->
            LET target == get_type(functions, first, ch[1]) IN
            IF target.code # 0 THEN target.code
            ELSE LET arr_type == get_type(functions, first, ch[2]) IN
                 IF arr_type.code # 0 THEN arr_type.code
                 ELSE IF arr_type.val # T_int /\ arr_type.val # EmptyStr THEN 22
                 ELSE LET l_value == get_indexed(target.val, ch[2]) IN
                      IF l_value.code # 0 THEN l_value.code
                      ELSE LET r_value == get_type(functions, first, ch[3]) IN
                           IF r_value.code # 0 THEN r_value.code
                           ELSE IF l_value.val # r_value.val THEN 9
                           ELSE 0
      [] a.node \in CompNodes \cup {"AndOp", "OrOp"} ->
            LET l_value == get_type(functions, first, ch[1]) IN
            IF l_value.code # 0 THEN l_value.code
            ELSE LET r_value == get_type(functions, first, ch[2]) IN
                 IF r_value.code # 0 THEN r_value.code
                 ELSE IF l_value.val # r_value.val THEN 10
                 ELSE 0
      [] OTHER -> check_types_children(functions, first, ch, 1)

check_types_children(functions, first, children, i) ==
    IF i > Len(children) THEN 0
    ELSE LET c == check_types(functions, first, children[i]) IN
         IF c # 0 THEN c ELSE check_types_children(functions, first, children, i + 1)

RECURSIVE check_return_func_1(_)
RECURSIVE check_return_1_children(_, _)
check_return_func_1(a) ==
    IF a.node = "ReturnValue" THEN 14
    ELSE check_return_1_children(a.children, 1)

check_return_1_children(children, i) ==
    IF i > Len(children) THEN 0
    ELSE LET c == check_return_func_1(children[i]) IN
         IF c # 0 THEN c ELSE check_return_1_children(children, i + 1)

check_return_func_3(a) ==
    IF a.node = "WhileLoop" THEN 0
    ELSE IF a.node = "ReturnValue" THEN 18
    ELSE IF \E i \in 1..Len(a.children) : check_return_func_1(a.children[i]) = 0 THEN 0
    ELSE 19

RECURSIVE check_return_func_2_any_return(_, _, _, _)
check_return_func_2_any_return(functions, first, a, ret_type) ==
    IF a.node = "ReturnValue" THEN 0
    ELSE IF \E i \in 1..Len(a.children) :
                check_return_func_2_any_return(functions, first, a.children[i], ret_type) = 0
    THEN 0
    ELSE 20

RECURSIVE check_return_func_2(_, _, _, _)
check_return_func_2(functions, first, a, ret_type) ==
    IF a.node = "ReturnValue"
    THEN LET t == get_type(functions, first, a.children[1]) IN
         IF t.code # 0 THEN t.code
         ELSE IF t.val = ret_type THEN 0
         ELSE 15
    ELSE IF \E i \in 1..Len(a.children) :
                check_return_func_2(functions, first, a.children[i], ret_type) = 0
    THEN 0
    ELSE 20

check_return(functions, first, a, ret) ==
    IF ret = EmptyStr THEN check_return_func_1(a)
    ELSE IF ret = Str("!") THEN check_return_func_3(a)
    ELSE check_return_func_2(functions, first, a, ret)

-----------------------------------------------------------------------------
(* Code generation.  The emitter's state is [bytes, calls, panic]: the      *)
(* Vec<u8> being built, the (location, callee) fixups, and whether an       *)
(* unwrap/expect/index of the code has panicked.  Locations are the code's  *)
(* 0-based offsets; byte k of the Vec is bytes[k + 1].  Opcodes are written *)
(* in decimal with the code's hexadecimal in the comment.                   *)

\* the four bytes of a non-negative number below 2^31, most significant first
Bytes4(m) == <<m \div 16777216, (m \div 65536) % 256, (m \div 256) % 256, m % 256>>

\* i32::to_be_bytes / u32::to_be_bytes: two's complement for a negative i32
BE32(n) ==
    IF n >= 0 THEN Bytes4(n)
    ELSE LET c == Bytes4(-(n + 1)) IN <<255 - c[1], 255 - c[2], 255 - c[3], 255 - c[4]>>

\* f32::to_be_bytes of the float n.0, |n| < 2^24: sign, exponent 127 + e, fraction
F32(n) ==
    IF n = 0 THEN <<0, 0, 0, 0>>
    ELSE LET a == IF n < 0 THEN -n ELSE n
             e == CHOOSE k \in 0..23 : 2^k <= a /\ a < 2^(k + 1)
             m == Bytes4((127 + e) * 8388608 + (a - 2^e) * 2^(23 - e))
         IN IF n < 0 THEN <<m[1] + 128, m[2], m[3], m[4]>> ELSE m

\* str::parse::<i32> of a decimal lexeme: -1 stands for the Err that expect() panics on
ParseInt(str) ==
    IF Len(str) = 1 /\ \E n \in 0..64 : ToString(n) = str[1]
    THEN CHOOSE n \in 0..64 : ToString(n) = str[1]
    ELSE -1

NewCode == [bytes |-> <<>>, calls |-> <<>>, panic |-> FALSE]
Panic(g) == [g EXCEPT !.panic = TRUE]

\* bytes.extend_from_slice(bs); nothing runs after a panic
Emit(g, bs) == IF g.panic THEN g ELSE [g EXCEPT !.bytes = @ \o bs]

\* for (i, byte) in b.iter().enumerate() { bytes[loc + i] = *byte }
Patch(g, loc, n) ==
    IF g.panic THEN g
    ELSE IF loc + 4 > Len(g.bytes) THEN Panic(g)
    ELSE [g EXCEPT !.bytes = [k \in 1..Len(@) |->
                                 IF k > loc /\ k <= loc + 4 THEN BE32(n)[k - loc] ELSE @[k]]]

\* the patch of a jump or return address with (bytes.len() as u32)
PatchHere(g, loc) == Patch(g, loc, Len(g.bytes))

\* calls.push((bytes.len() - 4, id))
PushCall(g, id) == IF g.panic THEN g ELSE [g EXCEPT !.calls = Append(@, <<Len(g.bytes) - 4, id>>)]

\* t.get(0..1).unwrap() == "["; the unwrap panics on the empty string
IsArrayType(t) == t # EmptyStr /\ t[1] = "["
Primitives == {T_int, T_float, T_bool, T_char}

\* the loop `while last_semicolon != None` that strips the array dimensions of a type
\* string: [base, len, ok], len the product of the dimensions
RECURSIVE ArrayShape(_, _)
ArrayShape(str, len) ==
    LET i == RFind(str, ";") IN
    IF i = -1 THEN [base |-> str, len |-> len, ok |-> TRUE]
    ELSE LET str_len == ParseInt(SubSeq(str, i + 3, Len(str) - 1)) IN
         IF str_len = -1 \/ i < 1 THEN [base |-> str, len |-> len, ok |-> FALSE]
         ELSE ArrayShape(SubSeq(str, 2, i), len * str_len)

\* generate_index_bytecode's variant of the loop: it breaks at the innermost dimension,
\* dividing that dimension out again and keeping the string it was at
RECURSIVE IndexShape(_, _)
IndexShape(str, len) ==
    LET i == RFind(str, ";") IN
    IF i = -1 THEN [base |-> str, len |-> len, ok |-> TRUE]
    ELSE LET str_len == ParseInt(SubSeq(str, i + 3, Len(str) - 1))
             new_t == SubSeq(str, 2, i)
         IN IF str_len = -1 \/ i < 1 THEN [base |-> str, len |-> len, ok |-> FALSE]
            ELSE IF RFind(new_t, ";") = -1
            THEN [base |-> str, len |-> len, ok |-> str_len # 0]
            ELSE IndexShape(new_t, len * str_len)

Env(functions, first, addrs) == [functions |-> functions, first |-> first, addrs |-> addrs]

RECURSIVE build_arr_helper(_, _)
build_arr_helper(left, right) ==
    IF left.node = "Null" THEN right
    ELSE IF left.node = "InputList"
    THEN Ast("InputList", <<left.children[1], build_arr_helper(left.children[2], right)>>)
    ELSE Ast("InputList", <<left, right>>)

RECURSIVE build_arr_from_input_list(_)
build_arr_from_input_list(a) ==
    IF a.node # "InputList" THEN a
    ELSE build_arr_helper(build_arr_from_input_list(a.children[1]),
                          build_arr_from_input_list(a.children[2]))

\* the opcode an operator node pushes, chosen by the type t
OperatorCode(node, t) ==
    CASE node = "AndOp" -> 88                                                  \* 0x58
      [] node = "OrOp" -> 89                                                   \* 0x59
      [] node = "CompEq" ->
            (CASE t = T_int -> 82 [] t = T_float -> 92 [] t = T_bool -> 98 [] OTHER -> 0)
      [] node = "CompNeq" ->
            (CASE t = T_int -> 83 [] t = T_float -> 93 [] t = T_bool -> 99 [] OTHER -> 0)
      [] node = "CompLess" -> (CASE t = T_int -> 84 [] t = T_float -> 94 [] OTHER -> 0)
      [] node = "CompGreater" -> (CASE t = T_int -> 86 [] t = T_float -> 96 [] OTHER -> 0)
      [] node = "CompLeq" -> (CASE t = T_int -> 85 [] t = T_float -> 95 [] OTHER -> 0)
      [] node = "CompGeq" -> (CASE t = T_int -> 87 [] t = T_float -> 97 [] OTHER -> 0)
      [] node = "AddOp" ->
            (CASE t = T_int -> 48 [] t = T_float -> 49 [] t = T_char -> 56 [] OTHER -> 0)
      [] node = "SubOp" ->
            (CASE t = T_int -> 50 [] t = T_float -> 51 [] t = T_char -> 57 [] OTHER -> 0)
      [] node = "MulOp" -> (CASE t = T_int -> 52 [] t = T_float -> 53 [] OTHER -> 0)
      [] OTHER -> (CASE t = T_int -> 54 [] t = T_float -> 55 [] OTHER -> 0)

\* the opcode of a load (prim, elem), a store (prim, elem) by the type; 0 when none
TypeCode(t, int, float, bool, char) ==
    CASE t = T_int -> int [] t = T_float -> float [] t = T_bool -> bool [] t = T_char -> char
      [] OTHER -> 0

\* the loop that strips the array dimensions without reading them
RECURSIVE BaseType(_)
BaseType(str) ==
    LET i == RFind(str, ";") IN
    IF i = -1 THEN [base |-> str, ok |-> TRUE]
    ELSE IF i < 1 THEN [base |-> str, ok |-> FALSE]
    ELSE BaseType(SubSeq(str, 2, i))

BinaryExprNodes == ArithNodes \cup CompNodes \cup {"AndOp", "OrOp"}

RECURSIVE generate_expr_bytecode(_, _, _)
RECURSIVE generate_expr_children(_, _, _, _)
RECURSIVE generate_inputs_bytecode(_, _, _)
RECURSIVE generate_inputs_children(_, _, _, _)
RECURSIVE generate_arr_bytecode(_, _, _, _)
RECURSIVE generate_index_bytecode(_, _, _, _)

\* the call sequence after the push of the return address at the end of g1: the inputs,
\* the jump whose target is a fixup, the patch of the return address
CallTail(g1, env, a) ==
    PatchHere(PushCall(Emit(generate_inputs_bytecode(g1, env, a.children[2]),
                            <<90, 0, 0, 0, 0>>),                               \* 0x5A
                       IdOf(a.children[1])),
              Len(g1.bytes) - 4)

\* the call sequence shared by the FnCall arms
CallSequence(g, env, a) ==
    IF g.panic THEN g ELSE CallTail(Emit(g, <<16, 0, 0, 0, 0>>), env, a)       \* 0x10

Operands_right_first(g, env, a) ==
    IF a.node \in BinaryExprNodes
    THEN generate_expr_bytecode(generate_expr_bytecode(g, env, a.children[2]), env,
                                a.children[1])
    ELSE g

\* generate_expr_bytecode's first match: the operands of a binary operator, left then right
Operands(g, env, a) ==
    IF a.node \in BinaryExprNodes
    THEN generate_expr_bytecode(generate_expr_bytecode(g, env, a.children[1]), env,
                                a.children[2])
    ELSE g

\* the operator opcode of a comparison or an arithmetic node, t the Result of get_type
TypedOperator(g, node, t) ==
    IF t.code # 0 THEN Panic(g) ELSE Emit(g, <<OperatorCode(node, t.val)>>)

\* the load of a variable of type t at addr
LoadVariable(g, t, addr) ==
    IF t \in Primitives
    THEN Emit(g, <<TypeCode(t, 34, 35, 41, 45)>> \o BE32(addr))    \* 0x22 0x23 0x29 0x2D
    ELSE IF t = EmptyStr THEN Panic(g)
    ELSE IF IsArrayType(t)
    THEN IF ~BaseType(t).ok THEN Panic(g)
         ELSE Emit(g, <<TypeCode(BaseType(t).base, 130, 131, 132, 133)>> \o BE32(addr))
                                                                    \* 0x82 0x83 0x84 0x85
    ELSE Emit(g, <<0>> \o BE32(addr))

\* generate_expr_bytecode's second match, after the operands
ExprCode(operands, env, a) ==
    CASE a.node = "InputList" ->
            generate_arr_bytecode(operands, env, build_arr_from_input_list(a), 0)
      [] a.node = "FnCall" -> CallSequence(operands, env, a)
      [] a.node \in {"AndOp", "OrOp"} -> Emit(operands, <<OperatorCode(a.node, EmptyStr)>>)
      [] a.node \in CompNodes \cup ArithNodes ->
            TypedOperator(operands, a.node,
                          get_type(env.functions, env.first,
                                   IF a.node \in CompNodes THEN a.children[1] ELSE a))
      [] a.node = "Integer" -> Emit(operands, <<16>> \o BE32(a.num))           \* 0x10
      [] a.node = "Float" -> Emit(operands, <<17>> \o F32(a.num))              \* 0x11
      [] a.node = "True" -> Emit(operands, <<20, 1>>)                          \* 0x14
      [] a.node = "False" -> Emit(operands, <<20, 0>>)
      [] a.node = "Character" -> Emit(operands, <<21, a.num % 256>>)           \* 0x15
      [] a.node = "Identifier" ->
            IF a.name \notin DOMAIN env.addrs THEN Panic(operands)
            ELSE LoadVariable(IF Len(a.children) > 0
                              THEN generate_index_bytecode(operands, env, a.children[1],
                                                           env.addrs[a.name][1])
                              ELSE operands,
                              env.addrs[a.name][1], env.addrs[a.name][2])
      [] OTHER -> generate_expr_children(operands, env, a.children, 1)

generate_expr_bytecode(g, env, a) ==
    IF g.panic THEN g ELSE ExprCode(Operands(g, env, a), env, a)

generate_expr_children(g, env, children, i) ==
    IF i > Len(children) THEN g
    ELSE generate_expr_children(generate_expr_bytecode(g, env, children[i]), env, children, i + 1)

\* the inputs of a call, last input first
generate_inputs_bytecode(g, env, a) ==
    IF g.panic THEN g
    ELSE IF a.node = "InputList"
    THEN generate_expr_bytecode(generate_inputs_bytecode(g, env, a.children[2]), env,
                                a.children[1])
    ELSE generate_inputs_children(g, env, a.children, 1)

generate_inputs_children(g, env, children, i) ==
    IF i > Len(children) THEN g
    ELSE generate_inputs_children(generate_inputs_bytecode(g, env, children[i]), env,
                                  children, i + 1)

\* the elements of a flattened array literal, last element first, each followed by the
\* push of its position
generate_arr_bytecode(g, env, a, idx) ==
    IF g.panic THEN g
    ELSE IF a.node = "InputList"
    THEN Emit(generate_expr_bytecode(generate_arr_bytecode(g, env, a.children[2], idx + 1),
                                     env, a.children[1]),
              <<16>> \o BE32(idx))
    ELSE g

\* the add that follows an index whose rest is not Null
IndexSum(g, a) == IF a.children[2].node # "Null" THEN Emit(g, <<48>>) ELSE g   \* 0x30

\* an index after its expression: the scaling by the dimensions read from the type, the
\* rest of the index
IndexTail(g, env, a, shape) ==
    IF ~shape.ok THEN Panic(g)
    ELSE IndexSum(generate_index_bytecode(Emit(g, <<16>> \o BE32(shape.len) \o <<52>>),
                                                                        \* 0x10 .. 0x34
                                          env, a.children[2], shape.base),
                  a)

generate_index_bytecode(g, env, a, t) ==
    IF g.panic THEN g
    ELSE IF a.node = "Index"
    THEN IndexTail(generate_expr_bytecode(g, env, a.children[1]), env, a, IndexShape(t, 1))
    ELSE g

\* len copies of the element store of an array declaration
Repeat(bs, len) == IF len <= 0 THEN <<>> ELSE [k \in 1..(len * Len(bs)) |-> bs[((k - 1) % Len(bs)) + 1]]

RECURSIVE generate_function_bytecode(_, _, _)
RECURSIVE generate_function_children(_, _, _, _)

\* the store of a declaration into a variable of type t at addr
StoreDeclared(g, t, addr) ==
    IF t \in Primitives
    THEN Emit(g, <<TypeCode(t, 36, 37, 42, 46)>> \o BE32(addr))    \* 0x24 0x25 0x2A 0x2E
    ELSE IF t = EmptyStr THEN Panic(g)
    ELSE IF IsArrayType(t)
    THEN IF ~ArrayShape(t, 1).ok THEN Panic(g)
         ELSE IF ArrayShape(t, 1).base \in Primitives
         THEN Emit(g, Repeat(<<TypeCode(ArrayShape(t, 1).base, 135, 136, 137, 138)>>
                             \o BE32(addr), ArrayShape(t, 1).len)) \* 0x87 0x88 0x89 0x8A
         ELSE Emit(g, <<0>>)
    ELSE Emit(g, <<0>> \o BE32(addr))

\* the store of an assignment; indexed says whether the target carries an index
StoreAssigned(g, t, addr, indexed) ==
    IF t \in Primitives THEN Emit(g, <<TypeCode(t, 36, 37, 42, 46)>> \o BE32(addr))
    ELSE IF indexed
    THEN IF ~BaseType(t).ok THEN Panic(g)
         ELSE Emit(g, <<TypeCode(BaseType(t).base, 135, 136, 137, 138)>> \o BE32(addr))
    ELSE Emit(g, <<0>> \o BE32(addr))

\* the arm Assign after the expression: the index, then the store
AssignTail(g, env, a) ==
    IF g.panic THEN g
    ELSE IF IdOf(a.children[1]) \notin DOMAIN env.addrs THEN Panic(g)
    ELSE StoreAssigned(IF a.children[2].node = "Index"
                       THEN generate_index_bytecode(g, env, a.children[2],
                                                    env.addrs[IdOf(a.children[1])][1])
                       ELSE g,
                       env.addrs[IdOf(a.children[1])][1], env.addrs[IdOf(a.children[1])][2],
                       a.children[2].node = "Index")

\* the arm Declare after the expression
DeclareTail(g, env, id) ==
    IF g.panic THEN g
    ELSE IF id \notin DOMAIN env.addrs THEN Panic(g)
    ELSE StoreDeclared(g, env.addrs[id][1], env.addrs[id][2])

\* WhileTail with the conditional jump patched before the jump back is emitted
WhileTail_patched_early(g2, env, body, return_to) ==
    Emit(PatchHere(generate_function_bytecode(g2, env, body), Len(g2.bytes) - 4),
         <<90>> \o BE32(return_to))

\* a loop after its conditional jump at the end of g2: the body, the jump back, the
\* patch of the conditional jump
WhileTail(g2, env, body, return_to) ==
    PatchHere(Emit(generate_function_bytecode(g2, env, body), <<90>> \o BE32(return_to)),
                                                                               \* 0x5A
              Len(g2.bytes) - 4)

\* a conditional after its conditional jump at the end of g2: the then-branch, the jump
\* over the else-branch, the patch of the conditional jump
ThenTail(g2, env, body) ==
    PatchHere(Emit(generate_function_bytecode(g2, env, body), <<90, 0, 0, 0, 0>>),
              Len(g2.bytes) - 4)

\* the else-branch children[2], and the patch of the jump at the end of g5
ElseTail(g5, env, a) ==
    IF g5.panic THEN g5
    ELSE IF Len(a.children) < 3 THEN Panic(g5)
    ELSE PatchHere(generate_function_bytecode(g5, env, a.children[3]), Len(g5.bytes) - 4)

generate_function_bytecode(g, env, a) ==
    IF g.panic THEN g
    ELSE CASE a.node \in {"DeclareConst", "DeclareVar"} ->
                DeclareTail(generate_expr_bytecode(g, env, a.children[3]), env,
                            IdOf(a.children[1]))
           [] a.node = "Assign" ->
                AssignTail(generate_expr_bytecode(g, env, a.children[3]), env, a)
           [] a.node = "FnCall" -> CallSequence(g, env, a)
           [] a.node = "WhileLoop" ->
                WhileTail(Emit(generate_expr_bytecode(g, env, a.children[1]),
                               <<81, 0, 0, 0, 0>>),                            \* 0x51
                          env, a.children[2], Len(g.bytes))
           [] a.node = "IfStmt" ->
                ElseTail(ThenTail(Emit(generate_expr_bytecode(g, env, a.children[1]),
                                       <<81, 0, 0, 0, 0>>),
                                  env, a.children[2]),
                         env, a)
           [] a.node = "ReturnValue" ->
                Emit(generate_expr_bytecode(g, env, a.children[1]), <<91>>)    \* 0x5B
           [] OTHER -> generate_function_children(g, env, a.children, 1)

generate_function_children(g, env, children, i) ==
    IF i > Len(children) THEN g
    ELSE generate_function_children(generate_function_bytecode(g, env, children[i]), env,
                                    children, i + 1)

\* the one-dimension reading of an array type that the prologue of a function other
\* than main makes
SingleShape(t) ==
    LET i == RFind(t, ";") IN
    IF i < 1 THEN [base |-> t, len |-> 0, ok |-> FALSE]
    ELSE LET len == ParseInt(SubSeq(t, i + 3, Len(t) - 1)) IN
         [base |-> SubSeq(t, 2, i), len |-> len, ok |-> len # -1]

\* the state generate_bytecode carries through one node: the code, the addresses given
\* to variables, the next free address, the offsets of the functions
NodeState(g, addrs, addr, locs) == [g |-> g, addrs |-> addrs, addr |-> addr, locs |-> locs]

Put(map, k, v) == [x \in DOMAIN map \cup {k} |-> IF x = k THEN v ELSE map[x]]

\* the bytes a value of the type takes in memory
Width(t) == CASE t \in {T_int, T_float} -> 4 [] t \in {T_bool, T_char} -> 1 [] OTHER -> 0

\* the opcode that allocates a variable of the type
AllocCode(t) ==
    IF t \in Primitives THEN TypeCode(t, 32, 33, 40, 44)           \* 0x20 0x21 0x28 0x2C
    ELSE IF IsArrayType(t) THEN 128 ELSE 0                                     \* 0x80

\* the allocation of an array: the width of an element, the number of elements
AllocateArray(st, shape) ==
    IF ~shape.ok THEN [st EXCEPT !.g = Panic(@)]
    ELSE [st EXCEPT !.g = Emit(@, (IF Width(shape.base) = 0 THEN <<>>
                                   ELSE <<Width(shape.base)>>) \o BE32(shape.len)),
                    !.addr = @ + Width(shape.base) * shape.len]

\* one iteration of `for (var_id, var_type) in var_set`: the allocation of a variable
AllocateVariable(st, v, is_main) ==
    IF v[2] = EmptyStr
    THEN [st EXCEPT !.g = Panic(@), !.addrs = Put(@, v[1], <<v[2], st.addr>>)]
    ELSE IF IsArrayType(v[2])
    THEN AllocateArray([st EXCEPT !.g = Emit(@, <<AllocCode(v[2])>> \o BE32(st.addr)),
                                  !.addrs = Put(@, v[1], <<v[2], st.addr>>)],
                       IF is_main THEN ArrayShape(v[2], 1) ELSE SingleShape(v[2]))
    ELSE [st EXCEPT !.g = Emit(@, <<AllocCode(v[2])>> \o BE32(st.addr)),
                    !.addrs = Put(@, v[1], <<v[2], st.addr>>),
                    !.addr = @ + Width(v[2])]

RECURSIVE AllocateVariables(_, _, _, _)
AllocateVariables(st, order, i, is_main) ==
    IF i > Len(order) \/ st.g.panic THEN st
    ELSE AllocateVariables(AllocateVariable(st, order[i], is_main), order, i + 1, is_main)

\* `for (param_id, param_type) in params`: the stores that bind the arguments
RECURSIVE BindParams(_, _, _)
BindParams(st, params, i) ==
    IF i > Len(params) \/ st.g.panic THEN st
    ELSE LET param_id == params[i][1]
             param_type == params[i][2]
         IN IF param_id \notin DOMAIN st.addrs THEN [st EXCEPT !.g = Panic(@)]
            ELSE IF param_type = EmptyStr THEN [st EXCEPT !.g = Panic(@)]
            ELSE LET code == IF param_type \in Primitives
                             THEN TypeCode(param_type, 36, 37, 42, 46)
                             ELSE IF IsArrayType(param_type) THEN 129 ELSE 0   \* 0x81
                 IN BindParams([st EXCEPT !.g = Emit(@, <<code>> \o BE32(st.addrs[param_id][2]))],
                               params, i + 1)

\* the type the first pair of each name has in the iteration order of var_set
FirstIn(order) ==
    [n \in {order[i][1] : i \in 1..Len(order)} |->
        order[CHOOSE i \in 1..Len(order) :
                 order[i][1] = n /\ \A j \in 1..(i - 1) : order[j][1] # n][2]]

\* the body of a function after its prologue, and ret.void when it has no return type
FunctionTail(st, functions, entry, order) ==
    [st EXCEPT !.g = IF entry.ret = EmptyStr
                     THEN Emit(generate_function_bytecode(
                                   @, Env(functions, FirstIn(order), st.addrs), entry.tree),
                               <<100>>)                                        \* 0x64
                     ELSE generate_function_bytecode(
                              @, Env(functions, FirstIn(order), st.addrs), entry.tree)]

\* the arm TLElement::Function of generate_bytecode for one function: its offset, its
\* prologue, its body
FunctionCode(st, functions, fn_id, entry, order, is_main) ==
    FunctionTail(BindParams(AllocateVariables([st EXCEPT !.locs = Put(@, fn_id, Len(st.g.bytes))],
                                              order, 1, is_main),
                            entry.params, 1),
                 functions, entry, order)

\* the stubs of the built-in functions
BuiltinStubs(st) ==
    LET at == Len(st.g.bytes) IN
    [st EXCEPT !.g = Emit(@, <<144, 100, 145, 100, 146, 100, 147, 100, 21, 10, 147, 100>>),
               !.locs = Put(Put(Put(Put(Put(@, Str("print_int"), at),
                                            Str("print_float"), at + 2),
                                        Str("print_bool"), at + 4),
                                    Str("print_char"), at + 6),
                                Str("println"), at + 8)]

RECURSIVE OtherFunctions(_, _, _, _, _, _)
OtherFunctions(st, functions, map, fn_ids, orders, i) ==
    IF i > Len(fn_ids) \/ st.g.panic THEN st
    ELSE IF fn_ids[i] = Str("main")
    THEN OtherFunctions(st, functions, map, fn_ids, orders, i + 1)
    ELSE OtherFunctions(FunctionCode(st, functions, fn_ids[i], map[fn_ids[i]],
                                     orders[fn_ids[i]], FALSE),
                        functions, map, fn_ids, orders, i + 1)

\* `for (call_loc, function_name) in calls`: the jump targets of the calls
RECURSIVE PatchCalls(_, _, _)
PatchCalls(g, locs, i) ==
    IF i > Len(g.calls) \/ g.panic THEN g
    ELSE IF g.calls[i][2] \notin DOMAIN locs THEN Panic(g)
    ELSE PatchCalls(Patch(g, g.calls[i][1], locs[g.calls[i][2]]), locs, i + 1)

\* the fixups of a node, once all its functions are placed
PatchAll(st) == [st EXCEPT !.g = PatchCalls(@, st.locs, 1)]

\* the body of generate_bytecode's loop for one node: the bytes of comp/<node_id>.k, with
\* variable_addresses, function_locations and calls as the loop body leaves them
NodeCode(functions, map, fn_ids, orders) ==
    IF Str("main") \notin DOMAIN map THEN NodeState(Panic(NewCode), <<>>, 0, <<>>)
    ELSE PatchAll(OtherFunctions(
                      BuiltinStubs(FunctionCode(NodeState(NewCode, <<>>, 0, <<>>), functions,
                                                Str("main"), map[Str("main")],
                                                orders[Str("main")], TRUE)),
                      functions, map, fn_ids, orders, 1))

\* serde_json::to_string of the node graph, one lexeme per token; `nodes` is the order
\* in which the HashMap is iterated
Quoted(str) == <<"\"">> \o str \o <<"\"">>

RECURSIVE JsonList(_, _)
JsonList(names, i) ==
    IF i > Len(names) THEN <<>>
    ELSE (IF i > 1 THEN <<",">> ELSE <<>>) \o Quoted(names[i]) \o JsonList(names, i + 1)

RECURSIVE JsonEntries(_, _, _)
JsonEntries(graph, nodes, i) ==
    IF i > Len(nodes) THEN <<>>
    ELSE (IF i > 1 THEN <<",">> ELSE <<>>)
         \o Quoted(nodes[i]) \o <<":", "[">> \o JsonList(graph[nodes[i]], 1) \o <<"]">>
         \o JsonEntries(graph, nodes, i + 1)

GraphJson(graph, nodes) == <<"{">> \o JsonEntries(graph, nodes, 1) \o <<"}">>

\* what generate_bytecode wrote, and whether the process panicked
NoOutput ==
    [files |-> <<>>, graph |-> <<>>, written |-> FALSE, addrs |-> <<>>, locs |-> <<>>,
     calls |-> <<>>, panic |-> FALSE]

\* one file of comp/: created before its node is generated, so the node that panics
\* leaves an empty file
WriteFile(o, node_id, st) ==
    [o EXCEPT !.files = Put(@, node_id, IF st.g.panic THEN <<>> ELSE st.g.bytes),
              !.addrs = Put(@, node_id, st.addrs),
              !.locs = Put(@, node_id, st.locs),
              !.calls = Put(@, node_id, st.g.calls),
              !.panic = st.g.panic]

RECURSIVE generate_nodes(_, _, _, _, _, _)
generate_nodes(o, table, functions, node_ids, i, iter) ==
    IF i > Len(node_ids) \/ o.panic THEN o
    ELSE generate_nodes(WriteFile(o, node_ids[i],
                                  NodeCode(functions, table[node_ids[i]],
                                           iter.fn_ids[node_ids[i]], iter.orders[node_ids[i]])),
                        table, functions, node_ids, i + 1, iter)

\* fs::write of comp/graph.json, after every node has been generated
WriteGraph(o, graph, nodes) ==
    IF o.panic THEN o ELSE [o EXCEPT !.graph = GraphJson(graph, nodes), !.written = TRUE]

\* generate_bytecode; iter holds the iteration orders of the maps and sets it walks:
\* keys (the functions vector), node_ids, fn_ids per node, orders per function, graph
generate_bytecode(src_, iter) ==
    WriteGraph(generate_nodes(NoOutput, src_.symbol_table,
                              FunctionsIn(src_.symbol_table, iter.keys), iter.node_ids, 1, iter),
               src_.graph, iter.graph)

\* the orders in which generate_bytecode can meet the elements of its maps and sets
Iterations(src_) ==
    LET table == src_.symbol_table IN
    {iter \in [keys : Perms(TableKeys(table)),
               node_ids : Perms(DOMAIN table),
               fn_ids : [DOMAIN table -> UNION {Perms(DOMAIN table[n]) : n \in DOMAIN table}],
               orders : [DOMAIN table ->
                            UNION {[DOMAIN table[n] ->
                                       UNION {Perms(table[n][f].set) : f \in DOMAIN table[n]}]
                                   : n \in DOMAIN table}],
               graph : Perms(DOMAIN src_.graph)] :
        \A n \in DOMAIN table :
            /\ iter.fn_ids[n] \in Perms(DOMAIN table[n])
            /\ DOMAIN iter.orders[n] = DOMAIN table[n]
            /\ \A f \in DOMAIN table[n] : iter.orders[n][f] \in Perms(table[n][f].set)}

-----------------------------------------------------------------------------
(* Source programs, as the token sequences the lexer hands to the parser.   *)
(* A program is one node A with one function main whose body is the given   *)
(* statements.                                                              *)

MaxOps == 2

Lexeme(op) ==
    CASE op = "+" -> Tok("Add") [] op = "-" -> Tok("Sub") [] op = "*" -> Tok("Mul")
      [] op = "/" -> Tok("Div") [] op = "&&" -> Tok("LogicalAnd") [] OTHER -> Tok("LogicalOr")

OpNode(op) ==
    CASE op = "+" -> "AddOp" [] op = "-" -> "SubOp" [] op = "*" -> "MulOp"
      [] op = "/" -> "DivOp" [] op = "&&" -> "AndOp" [] OTHER -> "OrOp"

BinaryOps == {"+", "-", "*", "/", "&&", "||"}
AddClass == {"+", "-"}
MulClass == {"*", "/"}
OrClass == {"||"}
AndClass == {"&&"}

OperandNames == <<"a", "b", "c", "d", "e">>

\* the i-th operand of an expression: the integer literal i or the i-th identifier
OperandToken(kind, i) == IF kind = "Integer" THEN TokInt(i) ELSE TokID(OperandNames[i])
OperandAst(kind, i) ==
    IF kind = "Integer" THEN Leaf("Integer", EmptyStr, i) ELSE Identifier(Str(OperandNames[i]))

RECURSIVE ChainTokens(_, _, _)
ChainTokens(kind, ops, i) ==
    IF i > Len(ops) THEN <<OperandToken(kind, i)>>
    ELSE <<OperandToken(kind, i), Lexeme(ops[i])>> \o ChainTokens(kind, ops, i + 1)

\* an expression descriptor: operand kind, the operators between the operands, and which
\* pair of operands is parenthesised: "none", "left" (the first two), "right" (the last two)
ExprTokens(e) ==
    LET n == Len(e.ops)
        flat == ChainTokens(e.kind, e.ops, 1)
    IN CASE e.paren = "left" ->
                <<Tok("LeftParen")>> \o SubSeq(flat, 1, 3) \o <<Tok("RightParen")>>
                    \o SubSeq(flat, 4, Len(flat))
         [] e.paren = "right" ->
                SubSeq(flat, 1, 2 * n - 2) \o <<Tok("LeftParen")>>
                    \o SubSeq(flat, 2 * n - 1, Len(flat)) \o <<Tok("RightParen")>>
         [] OTHER -> flat

StmtTokens(ctx, e) ==
    CASE ctx = "return" -> <<Tok("Return")>> \o e \o <<Tok("Semicolon")>>
      [] ctx = "var" ->
            <<Tok("Var"), TokID("x"), Tok("Colon"), Tok("Bool"), Tok("Assign")>> \o e
                \o <<Tok("Semicolon")>>
      [] ctx = "while" -> <<Tok("While")>> \o e \o <<Tok("LeftBrace"), Tok("RightBrace")>>
      [] OTHER -> <<Tok("If")>> \o e \o <<Tok("LeftBrace"), Tok("RightBrace")>>

ProgramTokens(body) ==
    <<Tok("Node"), TokID("A"), Tok("LeftBrace"), Tok("Fn"), TokID("main"), Tok("LeftParen"),
      Tok("RightParen"), Tok("Arrow"), Tok("Int"), Tok("LeftBrace")>>
        \o body \o <<Tok("RightBrace"), Tok("RightBrace")>>

OpSeqs == UNION {[1..n -> BinaryOps] : n \in 1..MaxOps}
ExprDescs == [kind : {"Integer", "ID"}, ops : OpSeqs, paren : {"none", "left", "right"}]
Contexts == {"return", "var", "while", "if"}
ExprSources == [fam : {"expr"}, ctx : Contexts, e : ExprDescs]
ExprSourceTokens(d) == ProgramTokens(StmtTokens(d.ctx, ExprTokens(d.e)))

-----------------------------------------------------------------------------
(* Source programs for the analyzer: one node A with one function main.     *)

MaxStmts == 2
MaxLen == 2

DeclTokens(kw, id, ty, init) ==
    <<Tok(kw), TokID(id), Tok("Colon")>> \o ty \o <<Tok("Assign")>> \o init \o <<Tok("Semicolon")>>
AssignTokens(id, indices, rhs) ==
    <<TokID(id)>> \o indices \o <<Tok("Assign")>> \o rhs \o <<Tok("Semicolon")>>
IndexTokens(e) == <<Tok("LeftBracket")>> \o e \o <<Tok("RightBracket")>>
CallTokens(id, args) ==
    <<TokID(id), Tok("LeftParen")>> \o args \o <<Tok("RightParen"), Tok("Semicolon")>>
ReturnTokens(e) == <<Tok("Return")>> \o e \o <<Tok("Semicolon")>>
BlockTokens(body) == <<Tok("LeftBrace")>> \o body \o <<Tok("RightBrace")>>
WhileTokens(cond, body) == <<Tok("While")>> \o cond \o BlockTokens(body)
IfTokens(cond, body) == <<Tok("If")>> \o cond \o BlockTokens(body)
IfElseTokens(cond, body, other) == IfTokens(cond, body) \o <<Tok("Else")>> \o BlockTokens(other)
ArrayTypeTokens(ty, len) ==
    <<Tok("LeftBracket")>> \o ty \o <<Tok("Semicolon"), TokInt(len), Tok("RightBracket")>>
FnTokens(id, params, ret, body) ==
    <<Tok("Fn"), TokID(id), Tok("LeftParen")>> \o params \o <<Tok("RightParen"), Tok("Arrow")>>
        \o ret \o BlockTokens(body)
NodeTokens(id, fns) == <<Tok("Node"), TokID(id)>> \o BlockTokens(fns)

RECURSIVE Flatten(_)
Flatten(seqs) == IF seqs = <<>> THEN <<>> ELSE Head(seqs) \o Flatten(Tail(seqs))

\* elements separated by commas
RECURSIVE CommaList(_)
CommaList(elems) ==
    IF Len(elems) = 0 THEN <<>>
    ELSE IF Len(elems) = 1 THEN elems[1]
    ELSE elems[1] \o <<Tok("Comma")>> \o CommaList(Tail(elems))
ArrayTokens(elems) == <<Tok("LeftBracket")>> \o CommaList(elems) \o <<Tok("RightBracket")>>

IntType == <<Tok("Int")>>
Unit == <<Tok("LeftParen"), Tok("RightParen")>>
One == <<TokInt(1)>>
Yes == <<Tok("True")>>

\* Family "scope": MaxStmts statements on the one name x, laid out over blocks.
\*   var: var x: int = 1;   const: const x: int = 1;   set: x = 1;
\*   use: var y: int = x;   skip: no statement
Atoms == {"var", "const", "set", "use", "skip"}
AtomTokens(a) ==
    CASE a = "var" -> DeclTokens("Var", "x", IntType, One)
      [] a = "const" -> DeclTokens("Const", "x", IntType, One)
      [] a = "set" -> AssignTokens("x", <<>>, One)
      [] a = "use" -> DeclTokens("Var", "y", IntType, <<TokID("x")>>)
      [] OTHER -> <<>>

Stmts(atoms, from, to) == Flatten([i \in 1..(to - from + 1) |-> AtomTokens(atoms[from + i - 1])])

Shapes == {"seq", "while_tail", "while_head", "if_else", "nested_head", "nested_tail",
           "nested_loop"}
ShapeTokens(shape, s) ==
    LET n == Len(s) IN
    CASE shape = "seq" -> Stmts(s, 1, n)
      [] shape = "while_tail" -> Stmts(s, 1, 1) \o WhileTokens(Yes, Stmts(s, 2, n))
      [] shape = "while_head" -> WhileTokens(Yes, Stmts(s, 1, n - 1)) \o Stmts(s, n, n)
      [] shape = "if_else" -> IfElseTokens(Yes, Stmts(s, 1, n - 1), Stmts(s, n, n))
      [] shape = "nested_head" ->
            WhileTokens(Yes, IfTokens(Yes, Stmts(s, 1, 1)) \o Stmts(s, 2, n - 1)) \o Stmts(s, n, n)
      [] shape = "nested_loop" ->
            WhileTokens(Yes, WhileTokens(Yes, Stmts(s, 1, 1)) \o Stmts(s, 2, n - 1)) \o Stmts(s, n, n)
      [] OTHER ->
            Stmts(s, 1, 1) \o IfElseTokens(Yes, WhileTokens(Yes, Stmts(s, 2, n - 1)), Stmts(s, n, n))

ScopeSources == [fam : {"scope"}, shape : Shapes, param : BOOLEAN, atoms : [1..MaxStmts -> Atoms]]
ScopeSourceTokens(d) ==
    NodeTokens("A", FnTokens("main",
        IF d.param THEN <<TokID("x"), Tok("Colon"), Tok("Int")>> ELSE <<>>,
        Unit, ShapeTokens(d.shape, d.atoms)))

\* Family "use": one identifier in one value position, or as the target of an assignment.
\* x is a local in scope, q a local of a block that has ended, z is declared nowhere, main
\* is the function; a is an array in scope.
UseContexts == {"init", "rhs", "index", "target", "target_index", "arg", "return", "while",
                "if", "while_cmp", "if_cmp"}
UseTokens(ctx, id) ==
    LET v == <<TokID(id)>>
        cmp == <<TokID(id), Tok("Equals"), TokInt(1)>>
    IN CASE ctx = "init" -> DeclTokens("Var", "y", IntType, v)
         [] ctx = "rhs" -> AssignTokens("x", <<>>, v)
         [] ctx = "index" -> AssignTokens("x", <<>>, <<TokID("a")>> \o IndexTokens(v))
         [] ctx = "target" -> AssignTokens(id, <<>>, One)
         [] ctx = "target_index" -> AssignTokens("a", IndexTokens(v), One)
         [] ctx = "arg" -> CallTokens("print_int", v)
         [] ctx = "return" -> ReturnTokens(v)
         [] ctx = "while" -> WhileTokens(v, <<>>)
         [] ctx = "if" -> IfTokens(v, <<>>)
         [] ctx = "while_cmp" -> WhileTokens(cmp, <<>>)
         [] OTHER -> IfTokens(cmp, <<>>)

UseSources == [fam : {"use"}, ctx : UseContexts, id : {"x", "q", "z", "main"}]
UseSourceTokens(d) ==
    NodeTokens("A", FnTokens("main", <<>>, IntType,
        DeclTokens("Var", "x", IntType, One)
        \o DeclTokens("Var", "a", ArrayTypeTokens(IntType, 2), ArrayTokens(<<One, One>>))
        \o IfTokens(Yes, DeclTokens("Var", "q", IntType, One))
        \o UseTokens(d.ctx, d.id)
        \o ReturnTokens(One)))

\* Family "decl": var v: T = E; for a type T and an initializer E.  An array literal has
\* 1..MaxLen elements: a first element of one kind, the others of another.
ElemTokens(k) ==
    CASE k = "int" -> One
      [] k = "float" -> <<TokFloat(1)>>
      [] k = "bool" -> Yes
      [] k = "sum" -> <<TokInt(1), Tok("Add"), TokInt(1)>>
      [] k = "and" -> <<Tok("True"), Tok("LogicalAnd"), Tok("False")>>
      [] k = "less" -> <<TokInt(1), Tok("Less"), TokInt(2)>>
      [] OTHER -> <<TokID("x")>>
ElemKinds == {"int", "float", "bool", "sum", "and", "less", "id"}
TypeDescs == [base : {"int", "float", "bool"}, len : 0..MaxLen]
TypeTokens(t) ==
    LET base == <<Tok(CASE t.base = "int" -> "Int" [] t.base = "float" -> "FloatKW"
                        [] OTHER -> "Bool")>>
    IN IF t.len = 0 THEN base ELSE ArrayTypeTokens(base, t.len)
InitDescs == [head : ElemKinds, rest : {"int", "bool"}, len : 0..MaxLen]
InitTokens(e) ==
    IF e.len = 0 THEN ElemTokens(e.head)
    ELSE ArrayTokens([i \in 1..e.len |-> ElemTokens(IF i = 1 THEN e.head ELSE e.rest)])

DeclSources == [fam : {"decl"}, ty : TypeDescs, init : InitDescs]
DeclSourceTokens(d) ==
    NodeTokens("A", FnTokens("main", <<>>, Unit,
        DeclTokens("Var", "x", IntType, One)
        \o DeclTokens("Var", "v", TypeTokens(d.ty), InitTokens(d.init))))

\* Family "assign": m[i1]..[ik] = E; on m: [[int; 2]; 2], with k = 0..3 indices of one kind
IndexKinds == {"int", "float", "id", "neg"}
IndexElem(k) ==
    CASE k = "int" -> <<TokInt(0)>>
      [] k = "float" -> <<TokFloat(1)>>
      [] k = "neg" -> <<Tok("Sub"), TokInt(1)>>
      [] OTHER -> <<TokID("x")>>
Row == ArrayTokens(<<One, One>>)
RhsTokens(r) ==
    CASE r = "int" -> One
      [] r = "float" -> <<TokFloat(1)>>
      [] r = "row" -> Row
      [] OTHER -> ArrayTokens(<<Row, Row>>)
AssignSources == [fam : {"assign"}, depth : 0..3, index : IndexKinds,
                  rhs : {"int", "float", "row", "matrix"}]
AssignSourceTokens(d) ==
    NodeTokens("A", FnTokens("main", <<>>, Unit,
        DeclTokens("Var", "x", IntType, One)
        \o DeclTokens("Var", "m", ArrayTypeTokens(ArrayTypeTokens(IntType, 2), 2),
                      ArrayTokens(<<Row, Row>>))
        \o AssignTokens("m", Flatten([i \in 1..d.depth |-> IndexTokens(IndexElem(d.index))]),
                        RhsTokens(d.rhs))))

\* Family "bool": L && R or L || R, the operands int or bool literals, in one position
BoolContexts == {"init", "rhs", "return", "while", "if"}
BoolSources == [fam : {"bool"}, ctx : BoolContexts, op : {"&&", "||"},
                l : {"int", "bool"}, r : {"int", "bool"}]
BoolSourceTokens(d) ==
    LET e == ElemTokens(d.l) \o <<Lexeme(d.op)>> \o ElemTokens(d.r) IN
    NodeTokens("A", FnTokens("main", <<>>, <<Tok("Bool")>>,
        DeclTokens("Var", "b", <<Tok("Bool")>>, Yes)
        \o (CASE d.ctx = "init" -> DeclTokens("Var", "c", <<Tok("Bool")>>, e)
              [] d.ctx = "rhs" -> AssignTokens("b", <<>>, e)
              [] d.ctx = "return" -> ReturnTokens(e)
              [] d.ctx = "while" -> WhileTokens(e, <<>>)
              [] OTHER -> IfTokens(e, <<>>))
        \o ReturnTokens(Yes)))

\* Family "emit": return E; for an arithmetic chain E over integer literals
EmitSources ==
    [fam : {"emit"},
     e : [kind : {"Integer"}, paren : {"none"},
          ops : UNION {[1..n -> AddClass \cup MulClass] : n \in 1..MaxOps}]]
EmitSourceTokens(d) ==
    NodeTokens("A", FnTokens("main", <<>>, IntType, ReturnTokens(ExprTokens(d.e))))

\* Family "call": fn f(a: P1, b: P2, ..) -> int { return 1; } and a main that calls f with
\* arguments of the types args, as the initializer of a declaration ("expr") or as a call
\* statement ("stmt")
TypeLists == UNION {[1..n -> {"int", "float"}] : n \in 0..MaxLen}
ParamTokens(types) ==
    CommaList([i \in 1..Len(types) |->
                  <<TokID(OperandNames[i]), Tok("Colon")>>
                      \o TypeTokens([base |-> types[i], len |-> 0])])
ArgTokens(types) == CommaList([i \in 1..Len(types) |-> ElemTokens(types[i])])
CallSources == [fam : {"call"}, pos : {"expr", "stmt"}, params : TypeLists, args : TypeLists]
CallSourceTokens(d) ==
    NodeTokens("A",
        FnTokens("f", ParamTokens(d.params), IntType, ReturnTokens(One))
        \o FnTokens("main", <<>>, Unit,
                IF d.pos = "expr"
                THEN DeclTokens("Var", "r", IntType,
                                <<TokID("f"), Tok("LeftParen")>> \o ArgTokens(d.args)
                                    \o <<Tok("RightParen")>>)
                ELSE CallTokens("f", ArgTokens(d.args))))

\* Family "ret": fn main() -> R { body } for a return type R (a type, () or !) and a body
\* of 0..MaxStmts statements:
\*   decl: var x: int = 1;        ret_int: return 1;      ret_bool: return true;
\*   ret_bad: return 1 + true;    while: while true { }
\*   while_ret: while true { return 1; }                  if_ret: if true { return 1; }
RetAtoms == {"decl", "ret_int", "ret_bool", "ret_bad", "while", "while_ret", "if_ret"}
RetAtomTokens(a) ==
    CASE a = "decl" -> DeclTokens("Var", "x", IntType, One)
      [] a = "ret_int" -> ReturnTokens(One)
      [] a = "ret_bool" -> ReturnTokens(Yes)
      [] a = "ret_bad" -> ReturnTokens(<<TokInt(1), Tok("Add"), Tok("True")>>)
      [] a = "while" -> WhileTokens(Yes, <<>>)
      [] a = "while_ret" -> WhileTokens(Yes, ReturnTokens(One))
      [] OTHER -> IfTokens(Yes, ReturnTokens(One))
RetTypeTokens(r) ==
    CASE r = "int" -> IntType
      [] r = "bool" -> <<Tok("Bool")>>
      [] r = "!" -> <<Tok("Not")>>
      [] OTHER -> Unit
RetSources ==
    [fam : {"ret"}, ret : {"int", "bool", "!", "()"},
     body : UNION {[1..n -> RetAtoms] : n \in 0..MaxStmts}]
RetSourceTokens(d) ==
    NodeTokens("A", FnTokens("main", <<>>, RetTypeTokens(d.ret),
        Flatten([i \in 1..Len(d.body) |-> RetAtomTokens(d.body[i])])))

\* Family "nodes": two node declarations, node A { .. } node N { .. } with N one of A, B, and
\* for each the functions it declares:
\*   none: no function           main: fn main() -> () { }       f: fn f() -> () { }
\*   main_f: a main that calls f(), and f                        calls_g: a main that calls g()
\*   main_g: an empty main, and g
NodeContents == {"none", "main", "f", "main_f", "calls_g", "main_g"}
EmptyFn(id) == FnTokens(id, <<>>, Unit, <<>>)
CallingFn(id, callee) == FnTokens(id, <<>>, Unit, CallTokens(callee, <<>>))
ContentTokens(c) ==
    CASE c = "none" -> <<>>
      [] c = "main" -> EmptyFn("main")
      [] c = "f" -> EmptyFn("f")
      [] c = "main_f" -> CallingFn("main", "f") \o EmptyFn("f")
      [] c = "calls_g" -> CallingFn("main", "g")
      [] OTHER -> EmptyFn("main") \o EmptyFn("g")
NodesSources ==
    [fam : {"nodes"}, second : {"A", "B"}, c1 : NodeContents, c2 : NodeContents]
NodesSourceTokens(d) ==
    NodeTokens("A", ContentTokens(d.c1)) \o NodeTokens(d.second, ContentTokens(d.c2))

\* Family "params": fn main(n1: T1, n2: T2, ..) -> () { } with 1..MaxLen parameters, each
\* named a or b and typed int or float
ParamLists == UNION {[1..n -> [id : {"a", "b"}, type : {"int", "float"}]] : n \in 1..MaxLen}
ParamsSources == [fam : {"params"}, params : ParamLists]
ParamsSourceTokens(d) ==
    NodeTokens("A",
        FnTokens("main",
                 CommaList([i \in 1..Len(d.params) |->
                               <<TokID(d.params[i].id), Tok("Colon")>>
                                   \o TypeTokens([base |-> d.params[i].type, len |-> 0])]),
                 Unit, <<>>))

\* Family "locals": a function that declares 0..MaxStmts locals, each an int, a bool, an
\* array [int; 2] or an array of arrays [[int; 2]; 2]; the function is main, or the
\* function f of a node whose main is empty
LocalKinds == {"int", "bool", "arr", "mat"}
LocalNames == <<"x", "y", "z">>
Pair == ArrayTokens(<<One, One>>)
LocalTokens(id, k) ==
    CASE k = "int" -> DeclTokens("Var", id, IntType, One)
      [] k = "bool" -> DeclTokens("Var", id, <<Tok("Bool")>>, Yes)
      [] k = "arr" -> DeclTokens("Var", id, ArrayTypeTokens(IntType, 2), Pair)
      [] OTHER -> DeclTokens("Var", id, ArrayTypeTokens(ArrayTypeTokens(IntType, 2), 2),
                             ArrayTokens(<<Pair, Pair>>))
LocalsSources ==
    [fam : {"locals"}, in : {"main", "f"},
     kinds : UNION {[1..n -> LocalKinds] : n \in 0..MaxStmts}]
LocalsSourceTokens(d) ==
    NodeTokens("A",
        (IF d.in = "main" THEN <<>> ELSE EmptyFn("main"))
        \o FnTokens(d.in, <<>>, Unit,
                Flatten([i \in 1..Len(d.kinds) |-> LocalTokens(LocalNames[i], d.kinds[i])])))

\* Family "matrix": var m: [[int; cols]; rows] = [[1, ..], ..]; in main, and the element
\* m[i][j] read (var y: int = m[i][j];) or written (m[i][j] = 1;), 0 <= i < rows and
\* 0 <= j < cols
MatrixSources ==
    {d \in [fam : {"matrix"}, pos : {"read", "write"}, rows : 1..MaxLen, cols : 1..MaxLen,
            i : 0..(MaxLen - 1), j : 0..(MaxLen - 1)] : d.i < d.rows /\ d.j < d.cols}
MatrixSourceTokens(d) ==
    LET at == IndexTokens(<<TokInt(d.i)>>) \o IndexTokens(<<TokInt(d.j)>>) IN
    NodeTokens("A", FnTokens("main", <<>>, Unit,
        DeclTokens("Var", "m", ArrayTypeTokens(ArrayTypeTokens(IntType, d.cols), d.rows),
                   ArrayTokens([r \in 1..d.rows |-> ArrayTokens([c \in 1..d.cols |-> One])]))
        \o (IF d.pos = "read" THEN DeclTokens("Var", "y", IntType, <<TokID("m")>> \o at)
            ELSE AssignTokens("m", at, One))))

\* Family "siblings": if true { var x: T1 = ..; } else { var x: T2 = ..; } in main, the
\* else-block with or without a use of x (var y: T2 = x;)
SiblingSources == [fam : {"siblings"}, then : {"int", "bool"}, other : {"int", "bool"},
                   use : BOOLEAN]
SiblingSourceTokens(d) ==
    LET ty(k) == IF k = "int" THEN IntType ELSE <<Tok("Bool")>> IN
    NodeTokens("A", FnTokens("main", <<>>, Unit,
        IfElseTokens(Yes,
            DeclTokens("Var", "x", ty(d.then), ElemTokens(d.then)),
            DeclTokens("Var", "x", ty(d.other), ElemTokens(d.other))
            \o (IF d.use THEN DeclTokens("Var", "y", ty(d.other), <<TokID("x")>>) ELSE <<>>))))

Sources ==
    SiblingSources \cup ScopeSources \cup UseSources \cup DeclSources \cup AssignSources \cup BoolSources
        \cup EmitSources \cup CallSources \cup RetSources \cup NodesSources
        \cup ParamsSources \cup LocalsSources \cup MatrixSources
SourceTokens(d) ==
    CASE d.fam = "scope" -> ScopeSourceTokens(d)
      [] d.fam = "use" -> UseSourceTokens(d)
      [] d.fam = "decl" -> DeclSourceTokens(d)
      [] d.fam = "assign" -> AssignSourceTokens(d)
      [] d.fam = "bool" -> BoolSourceTokens(d)
      [] d.fam = "call" -> CallSourceTokens(d)
      [] d.fam = "ret" -> RetSourceTokens(d)
      [] d.fam = "nodes" -> NodesSourceTokens(d)
      [] d.fam = "matrix" -> MatrixSourceTokens(d)
      [] d.fam = "siblings" -> SiblingSourceTokens(d)
      [] d.fam = "params" -> ParamsSourceTokens(d)
      [] d.fam = "locals" -> LocalsSourceTokens(d)
      [] OTHER -> EmitSourceTokens(d)

\* the state the analyzer and the emitter are in before Source::new
NoScope == [stack |-> <<>>, var_set |-> {}, work |-> <<>>, code |-> 0]
NoHist ==
    [op |-> "", kind |-> "", name |-> EmptyStr, before |-> <<>>, mark |-> <<>>, missed |-> FALSE]
NoSource == [graph |-> <<>>, symbol_table |-> <<>>]
InitAnalysis ==
    /\ source = NoSource
    /\ funcs = <<>>
    /\ cur = [keys |-> <<>>, i |-> 0]
    /\ scope = NoScope
    /\ firsts = <<>>
    /\ error = 0
    /\ out = NoOutput
    /\ hist = NoHist

-----------------------------------------------------------------------------
(* The lexer.  A lexer String is the sequence of its characters, each a     *)
(* one-character string; Option<Token> is the token, NoToken for None.      *)

KEYWORDS ==
    (<<"n", "o", "d", "e">> :> "Node") @@ (<<"e", "x", "p", "o", "r", "t">> :> "Export")
    @@ (<<"v", "a", "r">> :> "Var") @@ (<<"c", "o", "n", "s", "t">> :> "Const")
    @@ (<<"f", "n">> :> "Fn") @@ (<<"w", "h", "i", "l", "e">> :> "While")
    @@ (<<"t", "r", "u", "e">> :> "True") @@ (<<"f", "a", "l", "s", "e">> :> "False")
    @@ (<<"i", "f">> :> "If") @@ (<<"e", "l", "s", "e">> :> "Else")
    @@ (<<"r", "e", "t", "u", "r", "n">> :> "Return")

SYMBOLS ==
    (<<"=">> :> "Assign")
    @@ (<<"+">> :> "Add") @@ (<<"-">> :> "Sub") @@ (<<"*">> :> "Mul") @@ (<<"/">> :> "Div")
    @@ (<<"+", "=">> :> "AddAssign") @@ (<<"-", "=">> :> "SubAssign")
    @@ (<<"*", "=">> :> "MulAssign") @@ (<<"/", "=">> :> "DivAssign")
    @@ (<<"(">> :> "LeftParen") @@ (<<")">> :> "RightParen")
    @@ (<<"[">> :> "LeftBracket") @@ (<<"]">> :> "RightBracket")
    @@ (<<"{">> :> "LeftBrace") @@ (<<"}">> :> "RightBrace")
    @@ (<<";">> :> "Semicolon") @@ (<<":">> :> "Colon") @@ (<<":", ":">> :> "DoubleColon")
    @@ (<<"-", ">">> :> "Arrow") @@ (<<".">> :> "Dot") @@ (<<",">> :> "Comma")
    @@ (<<"=", "=">> :> "Equals") @@ (<<"!">> :> "Not") @@ (<<"<">> :> "Less")
    @@ (<<">">> :> "Greater") @@ (<<"<", "=">> :> "Leq") @@ (<<">", "=">> :> "Geq")
    @@ (<<"!", "=">> :> "Neq")
    @@ (<<"&", "&">> :> "LogicalAnd") @@ (<<"|", "|">> :> "LogicalOr")
    @@ (<<"&">> :> "BitwiseAnd") @@ (<<"|">> :> "BitwiseOr")

\* the character classes next_token tests
Whitespace == {" ", "\t", "\n", "\r"}
AsciiDigits == {"0", "1", "2", "3", "4", "5", "6", "7", "8", "9"}
AsciiLetters ==
    {"a", "b", "c", "d", "e", "f", "g", "h", "i", "j", "k", "l", "m",
     "n", "o", "p", "q", "r", "s", "t", "u", "v", "w", "x", "y", "z",
     "A", "B", "C", "D", "E", "F", "G", "H", "I", "J", "K", "L", "M",
     "N", "O", "P", "Q", "R", "S", "T", "U", "V", "W", "X", "Y", "Z"}
WordChars == AsciiLetters \cup AsciiDigits \cup {"_"}

\* the characters state 0 returns a token for at once
Brackets ==
    ("{" :> "LeftBrace") @@ ("}" :> "RightBrace") @@ ("(" :> "LeftParen")
    @@ (")" :> "RightParen") @@ ("[" :> "LeftBracket") @@ ("]" :> "RightBracket")
    @@ (";" :> "Semicolon") @@ ("." :> "Dot") @@ ("," :> "Comma")

\* the state that state 0 moves to on a character it returns no token for
StateAfter(c) ==
    CASE c \in {"+", "*", "/", "=", "!", "<", ">"} -> 1
      [] c = ":" -> 2
      [] c = "-" -> 3
      [] c \in AsciiLetters \cup {"_"} -> 4
      [] c \in AsciiDigits -> 5
      [] c = "\"" -> 7
      [] c = "&" -> 8
      [] c = "|" -> 9
      [] OTHER -> 0

\* a panic of next_token (an index of SYMBOLS that misses, an expect that fails)
PanicToken == [t |-> "panic", name |-> EmptyStr, num |-> 0]

\* the value of a string of decimal digits
RECURSIVE Decimal(_)
Decimal(attr) ==
    IF attr = <<>> THEN 0
    ELSE Decimal(SubSeq(attr, 1, Len(attr) - 1)) * 10
            + (CHOOSE n \in 0..9 : ToString(n) = attr[Len(attr)])
IsDecimal(attr) == attr # <<>> /\ \A i \in 1..Len(attr) : attr[i] \in AsciiDigits

\* attr.parse::<i32>().expect(..) on a lexeme that ends in digits: -1 for the panic
parse_i32(attr) ==
    IF IsDecimal(attr) /\ Decimal(attr) <= 2147483647 THEN Decimal(attr) ELSE -1

\* the fraction digits without the zeros that do not change the value
RECURSIVE Significant(_)
Significant(digits) ==
    IF digits # <<>> /\ digits[Len(digits)] = "0"
    THEN Significant(SubSeq(digits, 1, Len(digits) - 1))
    ELSE digits

\* Token::Float(attr.parse::<f64>().expect(..)) on a lexeme <digits>.<digits>: the value
\* is kept as its integer part and its significant fraction digits
FloatToken(attr) ==
    IF RFind(attr, ".") < 1 \/ ~IsDecimal(SubSeq(attr, 1, RFind(attr, "."))) THEN PanicToken
    ELSE [t |-> "Float",
          name |-> Significant(SubSeq(attr, RFind(attr, ".") + 2, Len(attr))),
          num |-> Decimal(SubSeq(attr, 1, RFind(attr, ".")))]
IntegerToken(attr) == IF parse_i32(attr) = -1 THEN PanicToken ELSE TokInt(parse_i32(attr))
SymbolToken(attr) == IF attr \in DOMAIN SYMBOLS THEN Tok(SYMBOLS[attr]) ELSE PanicToken
WordToken(attr) ==
    IF attr \in DOMAIN KEYWORDS THEN Tok(KEYWORDS[attr])
    ELSE [t |-> "ID", name |-> attr, num |-> 0]
StringLiteral(attr) == [t |-> "StringLiteral", name |-> attr, num |-> 0]

\* what a call of next_token leaves: self.curr and the value returned
Returns(curr, tok) == [curr |-> curr, token |-> tok]

\* the match after the loop, when the characters ran out in the state
AtEnd(chars, curr, state) ==
    CASE state = 4 -> Returns(Len(chars), WordToken(SubSeq(chars, curr + 1, Len(chars))))
      [] state = 5 -> Returns(Len(chars), IntegerToken(SubSeq(chars, curr + 1, Len(chars))))
      [] state = 6 -> Returns(Len(chars), FloatToken(SubSeq(chars, curr + 1, Len(chars))))
      [] state = 7 -> Returns(Len(chars), StringLiteral(SubSeq(chars, curr + 1, Len(chars))))
      [] OTHER -> Returns(curr, NoToken)

RECURSIVE Scan(_, _, _, _)

\* one iteration of next_token's loop: the match on state at the character c
ScanChar(chars, curr, forward, state, c) ==
    CASE state = 0 ->
            IF c \in Whitespace THEN Scan(chars, forward + 1, forward + 1, 0)
            ELSE IF c \in DOMAIN Brackets THEN Returns(forward + 1, Tok(Brackets[c]))
            ELSE Scan(chars, curr, forward + 1, StateAfter(c))
      [] state = 1 ->
            IF c = "=" THEN Returns(forward + 1, SymbolToken(SubSeq(chars, curr + 1, forward + 1)))
            ELSE Returns(forward, SymbolToken(<<chars[forward]>>))
      [] state = 2 ->
            IF c = ":" THEN Returns(forward + 1, Tok("DoubleColon"))
            ELSE Returns(forward, Tok("Colon"))
      [] state = 3 ->
            IF c = ">" THEN Returns(forward + 1, Tok("Arrow"))
            ELSE IF c = "=" THEN Returns(forward + 1, Tok("SubAssign"))
            ELSE Returns(forward, Tok("Sub"))
      [] state = 4 ->
            IF c \notin WordChars
            THEN Returns(forward, WordToken(SubSeq(chars, curr + 1, forward)))
            ELSE Scan(chars, curr, forward + 1, 4)
      [] state = 5 ->
            IF c = "." THEN Scan(chars, curr, forward + 1, 6)
            ELSE IF c \notin AsciiDigits
            THEN Returns(forward, IntegerToken(SubSeq(chars, curr + 1, forward)))
            ELSE Scan(chars, curr, forward + 1, 5)
      [] state = 6 ->
            IF c \notin AsciiDigits
            THEN Returns(forward, FloatToken(SubSeq(chars, curr + 1, forward)))
            ELSE Scan(chars, curr, forward + 1, 6)
      [] state = 7 ->
            IF c = "\""
            THEN Returns(forward + 1, StringLiteral(SubSeq(chars, curr + 1, forward + 1)))
            ELSE Scan(chars, curr, forward + 1, 7)
      [] state = 8 ->
            IF c = "&" THEN Returns(forward + 1, Tok("LogicalAnd"))
            ELSE Returns(forward, Tok("BitwiseAnd"))
      [] state = 9 ->
            IF c = "|" THEN Returns(forward + 1, Tok("LogicalAnd"))
            ELSE Returns(forward, Tok("BitwiseAnd"))
      [] OTHER -> Scan(chars, curr, forward + 1, state)

\* next_token's loop from forward on, then the match after it
Scan(chars, curr, forward, state) ==
    IF forward < Len(chars) THEN ScanChar(chars, curr, forward, state, chars[forward + 1])
    ELSE AtEnd(chars, curr, state)

\* Lexer::next_token on a lexer [chars, curr]
Lexer_next_token(lx) == Scan(lx.chars, lx.curr, lx.curr, 0)

\* f.lines(): the text without its line ends, \n or \r\n
RECURSIVE Lines(_)
Lines(text) ==
    IF text = <<>> THEN <<>>
    ELSE IF Head(text) = "\n" THEN Lines(Tail(text))
    ELSE IF Head(text) = "\r" /\ Len(text) > 1 /\ text[2] = "\n" THEN Lines(Tail(Tail(text)))
    ELSE <<Head(text)>> \o Lines(Tail(text))

\* Lexer::new on a file of the text
Lexer_new(text) == [chars |-> Lines(text), curr |-> 0]

\* the lexer of a run that is handed its tokens
InitLexing ==
    /\ lexer = Lexer_new(<<>>)
    /\ last_token = NoToken

-----------------------------------------------------------------------------
(* SpecParse: the parser run one loop iteration at a time on a source       *)
(* program, then generate_ast.                                              *)

InitParse ==
    /\ src \in ExprSources
    /\ input = ExprSourceTokens(src)
    /\ pstate = Parser_new
    /\ ast = AbstractSyntaxTree_new
    /\ phase = "parse"
    /\ InitAnalysis
    /\ InitLexing

\* one iteration of parse's inner loop that does not end the parse
parse ==
    /\ phase = "parse"
    /\ pstate.result = "running"
    /\ ParseStep(input, pstate).result = "running"
    /\ pstate' = ParseStep(input, pstate)
    /\ UNCHANGED <<src, input, ast, phase>>
    /\ UNCHANGED <<analysis, lexing>>

\* the iteration that returns Ok(()): End matched against no-more-tokens
parse_ok ==
    /\ phase = "parse"
    /\ pstate.result = "running"
    /\ ParseStep(input, pstate).result = "ok"
    /\ pstate' = ParseStep(input, pstate)
    /\ phase' = "parsed"
    /\ UNCHANGED <<src, input, ast>>
    /\ UNCHANGED <<analysis, lexing>>

\* the iteration that returns Err(..)
parse_err ==
    /\ phase = "parse"
    /\ pstate.result = "running"
    /\ ParseStep(input, pstate).result = "error"
    /\ pstate' = ParseStep(input, pstate)
    /\ phase' = "syntax_error"
    /\ UNCHANGED <<src, input, ast>>
    /\ UNCHANGED <<analysis, lexing>>

\* the iteration in which parse panics
parse_panic ==
    /\ phase = "parse"
    /\ pstate.result = "running"
    /\ ParseStep(input, pstate).result = "panic"
    /\ pstate' = ParseStep(input, pstate)
    /\ phase' = "aborted"
    /\ UNCHANGED <<src, input, ast>>
    /\ UNCHANGED <<analysis, lexing>>

generate_ast ==
    /\ phase = "parsed"
    /\ ast' = build_ast_from_parse_node(pstate.parse_tree, 0)
    /\ phase' = "lowered"
    /\ UNCHANGED <<src, input, pstate>>
    /\ UNCHANGED <<analysis, lexing>>

NextParse == parse \/ parse_ok \/ parse_err \/ generate_ast

SpecParse == InitParse /\ [][NextParse]_vars

\* SpecDamaged: the same parser on a program with one binary operation of which only the
\* first `at` tokens are kept ("cut"), or of which token number `at` is left out ("drop")
DamagedSources ==
    {d \in [fam : {"damaged"}, mode : {"cut", "drop"}, ctx : Contexts,
            e : {e \in ExprDescs : e.kind = "Integer" /\ e.paren = "none" /\ Len(e.ops) = 1},
            at : 0..32] :
        /\ d.at <= Len(ExprSourceTokens(d))
        /\ d.mode = "drop" => d.at >= 1}
DamagedSourceTokens(d) ==
    LET whole == ExprSourceTokens(d) IN
    IF d.mode = "cut" THEN SubSeq(whole, 1, d.at)
    ELSE SubSeq(whole, 1, d.at - 1) \o SubSeq(whole, d.at + 1, Len(whole))

InitDamaged ==
    /\ src \in DamagedSources
    /\ input = DamagedSourceTokens(src)
    /\ pstate = Parser_new
    /\ ast = AbstractSyntaxTree_new
    /\ phase = "parse"
    /\ InitAnalysis
    /\ InitLexing

NextDamaged == parse \/ parse_ok \/ parse_err \/ parse_panic \/ generate_ast

SpecDamaged == InitDamaged /\ [][NextDamaged]_vars

\* the statements of main's body, first to last, and a statement's expression
FunctionBody(program) == program.children[1].children[2].children[1].children[4]
FirstStmt(program) == FunctionBody(program).children[1]
StmtExpr(stmt) ==
    CASE stmt.node = "ReturnValue" -> stmt.children[1]
      [] stmt.node = "DeclareVar" -> stmt.children[3]
      [] OTHER -> stmt.children[1]

-----------------------------------------------------------------------------
(* SpecCompile: the driver on a source program: Parser::parse,              *)
(* generate_ast, Source::new (the symbol table, then for every function     *)
(* scope resolution one step at a time, check_types and check_return) and,  *)
(* on the Source it returns, Source::compile.  File-system errors of        *)
(* compile (the `?` on create, remove and write) are outside the model.     *)

InitCompile ==
    /\ src \in Sources
    /\ input = SourceTokens(src)
    /\ pstate = Parser_new
    /\ ast = AbstractSyntaxTree_new
    /\ phase = "start"
    /\ InitAnalysis
    /\ InitLexing

\* Parser::parse, the whole call
Parser_parse ==
    /\ phase = "start"
    /\ pstate' = ParseAll(input, pstate)
    /\ phase' = CASE pstate'.result = "ok" -> "parsed"
                   [] pstate'.result = "panic" -> "aborted"
                   [] OTHER -> "syntax_error"
    /\ UNCHANGED <<src, input, ast>>
    /\ UNCHANGED <<analysis, lexing>>

\* the names a condition uses as values: every Identifier but the callee of a call
RECURSIVE ValueNames(_)
ValueNames(a) ==
    IF a.node = "Identifier"
    THEN {a.name} \cup UNION {ValueNames(a.children[i]) : i \in 1..Len(a.children)}
    ELSE IF a.node = "FnCall" THEN ValueNames(a.children[2])
    ELSE UNION {ValueNames(a.children[i]) : i \in 1..Len(a.children)}

Resolves(stack, name) ==
    OnStack(stack, ScopeElem("Variable", name)) \/ OnStack(stack, ScopeElem("Const", name))

\* Source::new up to check_semantics' first loop: the node graph, the symbol table and the
\* functions vector, in the order the symbol table's maps are iterated
Source_new ==
    /\ phase = "lowered"
    /\ LET seeded == seed_symbol_table(Ok(<<>>), ast) IN
       /\ source' = [graph |-> create_node_graph(<<>>, ast),
                     symbol_table |-> IF seeded.code = 0 THEN seeded.val ELSE <<>>]
       /\ error' = seeded.code
       /\ \E keys \in Perms(IF seeded.code = 0 THEN TableKeys(seeded.val) ELSE {}) :
            /\ cur' = [keys |-> keys, i |-> 1]
            /\ funcs' = IF seeded.code = 0 THEN FunctionsIn(seeded.val, keys) ELSE <<>>
            /\ phase' = IF seeded.code # 0 THEN "rejected"
                        ELSE IF keys = <<>> THEN "accepted"
                        ELSE "function"
    /\ UNCHANGED <<lexing, frontend, scope, firsts, out, hist>>

Entry == source.symbol_table[cur.keys[cur.i][1]][cur.keys[cur.i][2]]

\* check_semantics' second loop at one function: the scope stack is seeded with a Func
\* marker per function and a Variable marker per parameter
check_semantics ==
    /\ phase = "function"
    /\ \E params \in Perms(Entry.set) :
          scope' = ScopeState(
                      [i \in 1..Len(funcs) |-> ScopeElem("Func", funcs[i][1])]
                          \o [i \in 1..Len(params) |-> ScopeElem("Variable", params[i][1])],
                      Entry.set, <<Visit(Entry.tree)>>, 0)
    /\ phase' = "scope"
    /\ hist' = NoHist
    /\ UNCHANGED <<lexing, frontend, source, funcs, cur, firsts, error, out>>

\* one step of check_semantics_helper; an Err ends Source::new.  hist records the step:
\* the task run, the scope stack before it, for a pop the stack as it was when the block's
\* marker was pushed, and whether some while/if condition met so far uses a name that is
\* neither a Variable nor a Const of the stack at that point.
ScopeAction(op) ==
    /\ phase = "scope"
    /\ scope.work # <<>>
    /\ Head(scope.work).op = op
    /\ scope' = ScopeStep(scope)
    /\ phase' = IF scope'.code # 0 THEN "rejected" ELSE "scope"
    /\ error' = scope'.code
    /\ hist' = LET t == Head(scope.work) IN
               [op |-> op, kind |-> t.kind, name |-> t.name, before |-> scope.stack,
                mark |-> t.before,
                missed |-> \/ hist.missed
                           \/ /\ op = "visit"
                              /\ t.ast.node \in {"WhileLoop", "IfStmt"}
                              /\ \E n \in ValueNames(t.ast.children[1]) : ~Resolves(scope.stack, n)]
    /\ UNCHANGED <<lexing, frontend, source, funcs, cur, firsts, out>>

scope_visit == ScopeAction("visit")
scope_declare == ScopeAction("declare")
scope_assign == ScopeAction("assign")
scope_resolve == ScopeAction("resolve")
scope_callee == ScopeAction("callee")
scope_pop == ScopeAction("pop")
scope_else == ScopeAction("else")

\* check_types on the function's tree, with the locals scope resolution collected
check_types_call ==
    /\ phase = "scope"
    /\ scope.work = <<>>
    /\ \E f \in FirstChoices(scope.var_set) :
          /\ firsts' = f
          /\ error' = check_types(funcs, f, Entry.tree)
    /\ phase' = IF error' # 0 THEN "rejected" ELSE "typed"
    /\ UNCHANGED <<lexing, frontend, source, funcs, cur, scope, out, hist>>

\* check_return, then the next function; the locals stay in the symbol table
check_return_call ==
    /\ phase = "typed"
    /\ error' = check_return(funcs, firsts, Entry.tree, Entry.ret)
    /\ source' = [source EXCEPT
                    !.symbol_table[cur.keys[cur.i][1]][cur.keys[cur.i][2]].set = scope.var_set]
    /\ cur' = IF error' = 0 /\ cur.i < Len(cur.keys) THEN [cur EXCEPT !.i = @ + 1] ELSE cur
    /\ phase' = IF error' # 0 THEN "rejected"
                ELSE IF cur.i = Len(cur.keys) THEN "accepted"
                ELSE "function"
    /\ UNCHANGED <<lexing, frontend, funcs, scope, firsts, out, hist>>

\* Source::compile: generate_bytecode on the Source that Source::new returned
compile ==
    /\ phase = "accepted"
    /\ \E iter \in Iterations(source) :
          out' = generate_bytecode(source, iter)
    /\ phase' = IF out'.panic THEN "panicked" ELSE "compiled"
    /\ UNCHANGED <<lexing, frontend, source, funcs, cur, scope, firsts, error, hist>>

NextCompile ==
    \/ compile
    \/ Parser_parse
    \/ generate_ast
    \/ Source_new
    \/ check_semantics
    \/ scope_visit
    \/ scope_declare
    \/ scope_assign
    \/ scope_resolve
    \/ scope_callee
    \/ scope_pop
    \/ scope_else
    \/ check_types_call
    \/ check_return_call

SpecCompile == InitCompile /\ [][NextCompile]_vars

-----------------------------------------------------------------------------
(* SpecLex: Lexer::new on a text of at most MaxChars characters, then       *)
(* next_token called again and again.                                       *)

MaxChars == 3
LexChars == {"&", "|", "=", "/", "-", ">", ":", " ", "\n", "i", "f", "1", "0", ".", "\"", "#"}
LexSources == [fam : {"text"}, text : UNION {[1..n -> LexChars] : n \in 0..MaxChars}]

InitLex ==
    /\ src \in LexSources
    /\ lexer = Lexer_new(src.text)
    /\ last_token = NoToken
    /\ input = <<>>
    /\ pstate = Parser_new
    /\ ast = AbstractSyntaxTree_new
    /\ phase = "lex"
    /\ InitAnalysis

\* one call of next_token; nothing runs after a panic, and a call that panics leaves
\* nothing behind
next_token ==
    /\ phase = "lex"
    /\ last_token # PanicToken
    /\ lexer' = IF Lexer_next_token(lexer).token = PanicToken THEN lexer
                ELSE [lexer EXCEPT !.curr = Lexer_next_token(lexer).curr]
    /\ last_token' = Lexer_next_token(lexer).token
    /\ UNCHANGED <<frontend, phase, analysis>>

NextLex == next_token

SpecLex == InitLex /\ [][NextLex]_vars

\* the function under analysis
Tree == Entry.tree

-----------------------------------------------------------------------------
(* Scope resolution *)

Markers(stack, name) ==
    {i \in 1..Len(stack) : stack[i] \in {ScopeElem("Variable", name), ScopeElem("Const", name)}}

\* C5: no shadowing.  The duplicate check of a var/const declaration rejects the
\* declaration with code 4 (const) or 5 (var) when its name is a Variable or Const marker
\* anywhere on the scope stack (a parameter, an earlier local of the block, a local of an
\* enclosing block); otherwise the declaration is accepted and exactly one marker for the
\* name is pushed.
C5_NoShadowing ==
    hist.op = "declare" =>
        IF Resolves(hist.before, hist.name)
        THEN /\ phase = "rejected"
             /\ error = (IF hist.kind = "Const" THEN 4 ELSE 5)
             /\ scope.stack = hist.before
        ELSE /\ scope.code = 0
             /\ scope.stack = Append(hist.before, ScopeElem(hist.kind, hist.name))
             /\ Cardinality(Markers(scope.stack, hist.name)) = 1

\* const x inside a while block whose enclosing block declared var x: rejected with 4
C5_Witness ==
    /\ src.fam = "scope"
    /\ src.shape = "while_tail"
    /\ ~src.param
    /\ src.atoms[1] = "var"
    /\ src.atoms[2] = "const"
    /\ hist.op = "declare"
    /\ OnStack(hist.before, Marker("WhileScope"))
    /\ phase = "rejected"
    /\ error = 4

\* a program of the "scope" family whose while block declares x and whose last statement
\* comes after the block, the walk being at that statement
AfterBlock ==
    /\ src.fam = "scope"
    /\ src.shape = "while_head"
    /\ ~src.param
    /\ \E i \in 1..(MaxStmts - 1) : src.atoms[i] \in {"var", "const"}
    /\ ~OnStack(hist.before, Marker("WhileScope"))
    /\ hist.name = Str("x")

\* C6: block scoping.  When the walk finishes a while body, an if block or an else block
\* (nested blocks included), the scope stack is what it was before the block's marker was
\* pushed: no marker of a local declared in the block remains.  An assignment to such a
\* local after the block is rejected, a declaration of its name after the block accepted.
C6_BlockScoping ==
    /\ hist.op = "pop" => scope.stack = hist.mark
    /\ (AfterBlock /\ hist.op = "assign") => (phase = "rejected" /\ error = 16)
    /\ (AfterBlock /\ hist.op = "declare") => scope.code = 0

\* the if block nested in a while body ends: its marker and its local x are popped
C6_Witness ==
    /\ src.fam = "scope"
    /\ src.shape = "nested_head"
    /\ hist.op = "pop"
    /\ hist.kind = "IfScope"
    /\ hist.before = hist.mark \o <<Marker("IfScope"), ScopeElem("Variable", Str("x"))>>
    /\ scope.stack = hist.mark
    /\ OnStack(scope.stack, Marker("WhileScope"))

\* C7: every identifier used as a value (initializer, right-hand side, index, argument,
\* return expression, while/if condition) resolves to a Variable or Const marker on the
\* scope stack at that point, or the function is rejected.
C7_UsesResolve ==
    /\ (hist.op = "resolve" /\ ~Resolves(hist.before, hist.name)) => phase = "rejected"
    /\ phase = "accepted" => ~hist.missed

\* C8: the target check of an assignment, run after the index and the right-hand side were
\* checked, accepts the assignment when the target is a Variable marker on the scope stack
\* and otherwise (a Const, a Func, a local of an ended block, an undeclared name) rejects
\* it with code 16.
C8_AssignTarget ==
    hist.op = "assign" =>
        IF OnStack(hist.before, ScopeElem("Variable", hist.name))
        THEN scope.code = 0 /\ scope.stack = hist.before
        ELSE phase = "rejected" /\ error = 16

\* x = 1 after const x: rejected with 16
C8_Witness ==
    /\ src.fam = "scope"
    /\ src.shape = "seq"
    /\ src.atoms[1] = "const"
    /\ src.atoms[2] = "set"
    /\ hist.op = "assign"
    /\ OnStack(hist.before, ScopeElem("Const", Str("x")))
    /\ phase = "rejected"
    /\ error = 16

-----------------------------------------------------------------------------
(* Type checking *)

\* the nodes of a tree whose kind is one of `kinds`
RECURSIVE NodesOf(_, _)
NodesOf(a, kinds) ==
    (IF a.node \in kinds THEN {a} ELSE {})
        \cup UNION {NodesOf(a.children[i], kinds) : i \in 1..Len(a.children)}

RECURSIVE ElementCount(_)
ElementCount(list) == IF list.node = "Null" THEN 0 ELSE 1 + ElementCount(list.children[2])

\* the type of a right-hand side: an array literal of n elements of type T is a [T; n]
RECURSIVE RhsType(_)
RhsType(a) ==
    IF a.node = "InputList"
    THEN FormatArrayType(RhsType(a.children[1]), ElementCount(a))
    ELSE get_type(funcs, firsts, a).val

\* C9: in an accepted function every declaration's declared type string equals the type of
\* its initializer; an array literal whose element count differs from the declared length
\* is rejected.
C9_DeclaredTypeSound ==
    (phase = "accepted" /\ cur.keys # <<>>) =>
        \A d \in NodesOf(Tree, {"DeclareVar", "DeclareConst"}) :
            IdOf(d.children[2]) = RhsType(d.children[3])

\* C10: in an accepted function both operands of every && and || are bool, wherever the
\* expression occurs.
C10_LogicalOperandsBool ==
    (phase = "accepted" /\ cur.keys # <<>>) =>
        \A n \in NodesOf(Tree, {"AndOp", "OrOp"}) :
            /\ get_type(funcs, firsts, n.children[1]) = Ok(T_bool)
            /\ get_type(funcs, firsts, n.children[2]) = Ok(T_bool)

\* the call of the family "call": the initializer of main's declaration
MainAnalysed == cur.keys # <<>> /\ cur.keys[cur.i][2] = Str("main")
CallExpr == StmtExpr(Tree.children[1])

\* C11: a call in expression position whose argument types equal, position by position in
\* declaration order, the parameter types of the declared function of that name passes
\* check_types, and get_type gives it the function's return type.
C11_MatchingCallTyped ==
    (/\ src.fam = "call" /\ src.pos = "expr" /\ src.args = src.params
     /\ phase \in {"typed", "rejected"} /\ MainAnalysed)
        => /\ error = 0
           /\ get_type(funcs, firsts, CallExpr) = Ok(T_int)

\* C12: a program that calls a user function with a tuple of argument types that no
\* declared function of that name has is never accepted, whether the call is an
\* expression or a call statement.
C12_MismatchRejected ==
    (src.fam = "call" /\ src.args # src.params)
        => phase \notin {"accepted", "compiled", "panicked"}

-----------------------------------------------------------------------------
(* Return paths *)

\* C13: whenever check_return passes a function whose return type T is neither void nor
\* `!`, the function's body holds a return statement whose expression has type T; a body
\* without one is rejected.
C13_ReturnOfTypeNeeded ==
    [][(/\ phase = "typed" /\ phase' # "rejected"
        /\ Entry.ret \notin {EmptyStr, Str("!")})
          => \E n \in NodesOf(Entry.tree, {"ReturnValue"}) :
                get_type(funcs, firsts, n.children[1]) = Ok(Entry.ret)]_vars

C13_Witness ==
    /\ phase = "accepted" /\ src.fam = "ret" /\ src.ret = "int"
    /\ src.body = <<"ret_bool", "if_ret">>

\* C14: a function of return type `!` passes check_return only if the first statement of
\* its body is a while loop and no return statement occurs anywhere in the body.
C14_NoReturnShape ==
    (phase = "accepted" /\ cur.keys # <<>> /\ Entry.ret = Str("!"))
        => /\ Tree.children # <<>>
           /\ Tree.children[1].node = "WhileLoop"
           /\ NodesOf(Tree, {"ReturnValue"}) = {}

-----------------------------------------------------------------------------
(* Seeding of the symbol table *)

\* Source::new has run on the program
Seeded == phase \notin {"start", "parsed", "syntax_error", "lowered"}

\* C15: a program with two node declarations of the same name is rejected by the seeding
\* of the symbol table with error 1, whatever functions the two nodes declare (none
\* included).
C15_DuplicateNodeRejected ==
    (src.fam = "nodes" /\ src.second = "A" /\ Seeded)
        => phase = "rejected" /\ error = 1

\* two parameters of the declaration carry the same name
SameNameTwice(params) ==
    \E i, j \in 1..Len(params) : i # j /\ params[i].id = params[j].id

\* C16: a function declaration in which two parameters carry the same name is rejected by
\* the seeding of the symbol table with error 3, whether the two parameters have the same
\* type or not.
C16_DuplicateParamRejected ==
    (src.fam = "params" /\ SameNameTwice(src.params) /\ Seeded)
        => phase = "rejected" /\ error = 3

-----------------------------------------------------------------------------
(* Files of Source::compile *)

\* Source::compile has run on the Source that Source::new returned
Compiled == phase \in {"compiled", "panicked"}

\* C17: for every program Source::new accepts, generate_bytecode completes, comp/ holds one
\* file <node>.k for every key of the dependency graph, and every file has its node's main
\* at offset 0.
C17_EveryNodeWritten ==
    Compiled
        => /\ phase = "compiled"
           /\ DOMAIN out.files = DOMAIN source.graph
           /\ \A n \in DOMAIN out.files :
                 /\ Str("main") \in DOMAIN out.locs[n]
                 /\ out.locs[n][Str("main")] = 0

\* the bytes a variable of the type occupies: 4 for int and float, 1 for bool and char,
\* size_of(T) * N for [T; N]
RECURSIVE SizeOf(_)
SizeOf(t) ==
    IF t \in Primitives THEN Width(t)
    ELSE IF IsArrayType(t) /\ SingleShape(t).ok
    THEN SizeOf(SingleShape(t).base) * SingleShape(t).len
    ELSE 0

\* the address ranges of two entries <<type, address>> of variable_addresses do not meet
Apart(v, w) == v[2] + SizeOf(v[1]) <= w[2] \/ w[2] + SizeOf(w[1]) <= v[2]

\* C18: in the code generate_bytecode writes for a node, two locals of different names of
\* one function, main or not, occupy disjoint address ranges, the range of a local being
\* the size of its type (nested arrays included) from its address on.
C18_AddressesDisjoint ==
    phase = "compiled"
        => \A n \in DOMAIN out.addrs : \A f \in DOMAIN source.symbol_table[n] :
              \A v, w \in source.symbol_table[n][f].set :
                 v[1] # w[1] => Apart(out.addrs[n][v[1]], out.addrs[n][w[1]])

\* C19: when Source::compile has run on an accepted program, every entry (call_loc,
\* function_name) of a node's calls names a key of the node's function_locations, and the
\* four bytes at call_loc of the node's file are that function's offset.
C19_FixupsComplete ==
    Compiled
        => \A n \in DOMAIN out.calls : \A i \in 1..Len(out.calls[n]) :
              /\ out.calls[n][i][2] \in DOMAIN out.locs[n]
              /\ out.calls[n][i][1] + 4 <= Len(out.files[n])
              /\ SubSeq(out.files[n], out.calls[n][i][1] + 1, out.calls[n][i][1] + 4)
                    = BE32(out.locs[n][out.calls[n][i][2]])

-----------------------------------------------------------------------------
(* Emission of expressions *)

\* the int opcode of an arithmetic operator of the source text
IntOpcode(op) == CASE op = "+" -> 48 [] op = "-" -> 50 [] op = "*" -> 52 [] OTHER -> 54

\* the postfix code of the chain 1 ops[1] 2 ops[2] ... read with * and / binding tighter
\* than + and -, both left to right: operand i is pushed, then the * or / before it is
\* applied, then the + or - pending before the term that operand i ends
RECURSIVE PostfixChain(_, _, _)
PostfixChain(ops, i, pending) ==
    LET n == Len(ops)
        push == <<16>> \o BE32(i)
        tight == IF i > 1 /\ ops[i - 1] \in MulClass THEN <<IntOpcode(ops[i - 1])>> ELSE <<>>
        ends_term == i = n + 1 \/ ops[i] \in AddClass
        loose == IF ends_term /\ pending # "" THEN <<IntOpcode(pending)>> ELSE <<>>
    IN push \o tight \o loose
       \o (IF i = n + 1 THEN <<>>
           ELSE PostfixChain(ops, i + 1, IF ops[i] \in AddClass THEN ops[i] ELSE pending))

IsPrefix(p, bytes) == Len(p) <= Len(bytes) /\ SubSeq(bytes, 1, Len(p)) = p

\* C4: * and / bind tighter than + and -, and a binary expression is emitted in postfix
\* order: when fn main() -> int { return E; } has been compiled, E a chain of integer
\* literals 1, 2, ... joined by +, -, *, /, the file of the node begins with the postfix
\* code of E under that precedence, followed by ret.val (0x5B)
C4_PostfixPrecedence ==
    (phase = "compiled" /\ src.fam = "emit")
        => IsPrefix(PostfixChain(src.e.ops, 1, "") \o <<91>>, out.files[Str("A")])

\* return 1 + 2 * 3; compiled to push 1, push 2, push 3, mul.i32, add.i32, ret.val
C4_Witness ==
    /\ phase = "compiled"
    /\ src.fam = "emit"
    /\ src.e.ops = <<"+", "*">>
    /\ IsPrefix(<<16, 0, 0, 0, 1, 16, 0, 0, 0, 2, 16, 0, 0, 0, 3, 52, 48, 91>>,
                out.files[Str("A")])

-----------------------------------------------------------------------------
(* Associativity of the lowered expressions *)

\* the left-associated tree of the first n operators of a chain
RECURSIVE LeftAssociated(_, _, _)
LeftAssociated(kind, ops, n) ==
    IF n = 0 THEN OperandAst(kind, 1)
    ELSE Ast(OpNode(ops[n]), <<LeftAssociated(kind, ops, n - 1), OperandAst(kind, n + 1)>>)

\* the tree of a chain whose last two operands are parenthesised:
\* x1 op1 ... opn-1 (xn opn xn+1)
RightGrouped(kind, ops) ==
    LET n == Len(ops)
        group == Ast(OpNode(ops[n]), <<OperandAst(kind, n), OperandAst(kind, n + 1)>>)
    IN IF n = 1 THEN group
       ELSE Ast(OpNode(ops[n - 1]), <<LeftAssociated(kind, ops, n - 2), group>>)

SameClass(ops, classes) == \E c \in classes : \A i \in 1..Len(ops) : ops[i] \in c

Lowered == StmtExpr(FirstStmt(ast))

\* C1: an unparenthesised chain of two or more operators of one precedence class
\* ({+,-}, {*,/} or {||}) parses, and lowers to the left-associated tree:
\* a OP1 b OP2 c becomes OP2(OP1(a, b), c).
C1_LeftAssociative ==
    (/\ src.fam = "expr"
     /\ src.e.paren = "none"
     /\ Len(src.e.ops) >= 2
     /\ SameClass(src.e.ops, {AddClass, MulClass, OrClass}))
    => /\ phase # "syntax_error"
       /\ phase = "lowered" => Lowered = LeftAssociated(src.e.kind, src.e.ops, Len(src.e.ops))

\* 1 - 2 - 3 lowered to Sub(Sub(1, 2), 3)
C1_Witness ==
    /\ src = [fam |-> "expr", ctx |-> "return",
              e |-> [kind |-> "Integer", ops |-> <<"-", "-">>, paren |-> "none"]]
    /\ phase = "lowered"
    /\ Lowered = Ast("SubOp", <<Ast("SubOp", <<Leaf("Integer", EmptyStr, 1),
                                             Leaf("Integer", EmptyStr, 2)>>),
                               Leaf("Integer", EmptyStr, 3)>>)

\* C2: a chain of two or more && over identifiers, used as a condition or as an
\* initializer, parses without a syntax error and lowers to the left-associated tree:
\* a && b && c becomes And(And(a, b), c).
C2_AndChain ==
    (/\ src.fam = "expr"
     /\ src.ctx \in {"var", "while", "if"}
     /\ src.e.paren = "none"
     /\ src.e.kind = "ID"
     /\ Len(src.e.ops) >= 2
     /\ SameClass(src.e.ops, {AndClass}))
    => /\ phase # "syntax_error"
       /\ phase = "lowered" => Lowered = LeftAssociated(src.e.kind, src.e.ops, Len(src.e.ops))

\* C3: when the right operand of an operator is a parenthesised expression of the same
\* precedence class, the lowered tree keeps the grouping of the source:
\* a - (b - c) becomes Sub(a, Sub(b, c)), a / (b * c) becomes Div(a, Mul(b, c)).
C3_GroupingKept ==
    (/\ src.fam = "expr"
     /\ src.e.paren = "right"
     /\ Len(src.e.ops) >= 2
     /\ SameClass(src.e.ops, {AddClass, MulClass})
     /\ phase = "lowered")
    => Lowered = RightGrouped(src.e.kind, src.e.ops)

-----------------------------------------------------------------------------
(* Lexer *)

\* the characters of the lexeme of length n that begins where the lexer stands
Ahead(n) ==
    SubSeq(lexer.chars, lexer.curr + 1,
           IF lexer.curr + n <= Len(lexer.chars) THEN lexer.curr + n ELSE Len(lexer.chars))

\* the lexer stands at the operator lexeme: a doubled form, or a single & or | that no
\* second one follows
StandsAt(lexeme) ==
    IF Len(lexeme) = 2 THEN Ahead(2) = lexeme
    ELSE Ahead(1) = lexeme /\ Ahead(2) # lexeme \o lexeme

\* C20: a call of next_token on a lexer that stands at &&, ||, & or | returns the token
\* SYMBOLS assigns to that lexeme and advances the lexer by the length of the lexeme.
C20_OperatorTokens ==
    [][\A lexeme \in {<<"&", "&">>, <<"|", "|">>, <<"&">>, <<"|">>} :
          StandsAt(lexeme)
              => /\ last_token' = Tok(SYMBOLS[lexeme])
                 /\ lexer'.curr = lexer.curr + Len(lexeme)]_vars

\* the text after its first line: what follows the first \n, nothing when there is none
RECURSIVE AfterLine(_)
AfterLine(text) ==
    IF text = <<>> THEN <<>>
    ELSE IF Head(text) = "\n" THEN Tail(text)
    ELSE AfterLine(Tail(text))

\* no call of next_token has consumed anything of a text that begins with //
AtLineComment ==
    /\ lexer.curr = 0
    /\ last_token = NoToken
    /\ Len(src.text) >= 2 /\ src.text[1] = "/" /\ src.text[2] = "/"

\* C21: the call of next_token on a text whose first line begins with // returns what the
\* lexer returns first for the lines after it: the first token of the following line, or
\* None when nothing follows; nothing of the comment's line is returned as a token.
C21_CommentSkipped ==
    [][AtLineComment
          => last_token' = Lexer_next_token(Lexer_new(AfterLine(src.text))).token]_vars

\* the lexer stands at a quote that no later quote closes
Unterminated ==
    /\ Ahead(1) = <<"\"">>
    /\ \A i \in (lexer.curr + 2)..Len(lexer.chars) : lexer.chars[i] # "\""

\* the lexer stands at a character that is no whitespace and that state 0 neither returns a
\* token for nor leaves state 0 on
Unexpected ==
    /\ Ahead(1) # <<>>
    /\ Ahead(1)[1] \notin Whitespace \cup DOMAIN Brackets
    /\ StateAfter(Ahead(1)[1]) = 0

\* C22: a call of next_token on a lexer that stands at an unterminated string literal or at
\* a character that starts no token fails; it returns neither a token nor None.
C22_IllFormedFails ==
    [][(Unterminated \/ Unexpected) => last_token' = PanicToken]_vars

-----------------------------------------------------------------------------
(* Boolean expressions *)

\* the expression is a chain of identifiers joined by && and ||
BoolChain ==
    /\ src.fam = "expr"
    /\ src.e.kind = "ID"
    /\ \A i \in 1..Len(src.e.ops) : src.e.ops[i] \in AndClass \cup OrClass

\* C23: a && b || c parses and lowers to Or(And(a, b), c), and every operand of a lowered
\* chain of && and || is an Identifier of its tree.
C23_AndBindsTighter ==
    BoolChain
        => /\ (src.e.paren = "none" /\ src.e.ops = <<"&&", "||">>)
                => /\ phase # "syntax_error"
                   /\ phase = "lowered" => Lowered = LeftAssociated("ID", src.e.ops, 2)
           /\ phase = "lowered"
                => \A i \in 1..(Len(src.e.ops) + 1) :
                      OperandAst("ID", i) \in NodesOf(Lowered, {"Identifier"})

(***************************************************************************)
(* Argument passing                                                        *)
(***************************************************************************)
\* the address operand of the k-th parameter store of f's prologue, which follows the
\* allocations of f's locals (here its parameters, five bytes each)
ParamStore(k) ==
    LET at == out.locs[Str("A")][Str("f")] + 5 * Len(src.params) + 5 * (k - 1)
    IN SubSeq(out.files[Str("A")], at + 2, at + 5)

\* the opcodes of the pushes between the return address and the jump of main's call of f,
\* in the order of emission (every argument is a literal of five bytes)
PushedArgs ==
    LET call_loc == out.calls[Str("A")][1][1]
    IN [k \in 1..Len(src.args)
            |-> out.files[Str("A")][call_loc - 5 * (Len(src.args) - k + 1)]]

TwoParamCall ==
    /\ src.fam = "call"
    /\ phase = "compiled"
    /\ Len(src.params) >= 2
    /\ Len(src.args) = Len(src.params)

\* C24: a call pushes its arguments last argument first, and the callee's prologue stores
\* its parameters in declaration order, so the k-th store (which pops the k-th argument)
\* writes to the address of the k-th declared parameter.
C24_ArgumentsBound ==
    TwoParamCall
        => /\ \A k \in 1..Len(src.args) :
                 PushedArgs[k] = (IF src.args[Len(src.args) + 1 - k] = "int" THEN 16 ELSE 17)
           /\ \A k \in 1..Len(src.params) :
                 ParamStore(k) = BE32(out.addrs[Str("A")][Str(OperandNames[k])][2])

\* C24, the part that holds: the arguments are pushed last argument first
C24_PushedLastFirst ==
    TwoParamCall
        => \A k \in 1..Len(src.args) :
              PushedArgs[k] = (IF src.args[Len(src.args) + 1 - k] = "int" THEN 16 ELSE 17)

\* C24, what the code does: the k-th store writes to the k-th parameter from the end
C24_StoresReversed ==
    TwoParamCall
        => \A k \in 1..Len(src.params) :
              ParamStore(k) = BE32(out.addrs[Str("A")][Str(OperandNames[Len(src.params) + 1 - k])][2])

(***************************************************************************)
(* Loops                                                                   *)
(***************************************************************************)
FileA == out.files[Str("A")]

\* the offsets of FileA at which the code of the condition `true` stands before a
\* jmp.if.false: the loops and conditionals of the program, in source order
CondJumps == {s \in 0..(Len(FileA) - 7) : SubSeq(FileA, s + 1, s + 3) = <<20, 1, 81>>}
NthCondJump(k) == CHOOSE s \in CondJumps : Cardinality({t \in CondJumps : t < s}) = k - 1

\* which of them are loops
LoopsOf(shape) ==
    CASE shape \in {"while_tail", "while_head", "nested_head"} -> {1}
      [] shape = "nested_tail" -> {2}
      [] shape = "nested_loop" -> {1, 2}
      [] OTHER -> {}

LoopProgram == src.fam = "scope" /\ phase = "compiled" /\ LoopsOf(src.shape) # {}

\* the operand of the jmp.if.false of the loop that starts at offset S
ExitOf(S) ==
    LET b == SubSeq(FileA, S + 4, S + 7)
    IN b[1] * 16777216 + b[2] * 65536 + b[3] * 256 + b[4]

\* the code generate_function_bytecode emits for `body` after the first n bytes of FileA
CodeAfter(n, body) ==
    LET addrs == out.addrs[Str("A")]
        g == generate_function_bytecode(
                 [bytes |-> SubSeq(FileA, 1, n), calls |-> <<>>, panic |-> FALSE],
                 Env(funcs, [v \in DOMAIN addrs |-> addrs[v][1]], addrs), body)
    IN SubSeq(g.bytes, n + 1, Len(g.bytes))

\* the loop at offset S: condition, jmp.if.false, body, jmp S, and the conditional jump
\* leads to the first byte after the jmp
LoopAt(S) ==
    /\ SubSeq(FileA, S + 1, S + 3) = <<20, 1, 81>>
    /\ ExitOf(S) >= S + 12
    /\ ExitOf(S) <= Len(FileA)
    /\ SubSeq(FileA, ExitOf(S) - 4, ExitOf(S)) = <<90>> \o BE32(S)
    /\ \E w \in NodesOf(source.symbol_table[Str("A")][Str("main")].tree, {"WhileLoop"}) :
          SubSeq(FileA, S + 8, ExitOf(S) - 5) = CodeAfter(S + 7, w.children[2])

\* C25: a while loop is emitted as the code of its condition at offset S, jmp.if.false
\* with a four-byte operand, the code of its body, and jmp S; the operand of the
\* jmp.if.false is the offset of the first byte after the jmp, also when loops and
\* conditionals are nested in the body.
C25_LoopLayout ==
    LoopProgram
        => /\ Cardinality(CondJumps) >= Cardinality(LoopsOf(src.shape))
           /\ \A k \in LoopsOf(src.shape) : LoopAt(NthCondJump(k))

\* a loop in the body of a loop, with a statement in its own body
C25_Witness ==
    /\ LoopProgram
    /\ src.shape = "nested_loop"
    /\ src.atoms[1] = "var"
    /\ \A k \in LoopsOf(src.shape) : LoopAt(NthCondJump(k))

(***************************************************************************)
(* Indexing                                                                *)
(***************************************************************************)
\* the four bytes of FileA after offset `at`, as a number
Word(at) ==
    FileA[at + 1] * 16777216 + FileA[at + 2] * 65536 + FileA[at + 3] * 256 + FileA[at + 4]

\* the offsets of FileA at which the code of an access v[i][j] stands: push i, push
\* stride, mul, push j, push stride, mul, add
IndexCodes ==
    {s \in 0..(Len(FileA) - 23) :
        /\ FileA[s + 1] = 16 /\ FileA[s + 6] = 16 /\ FileA[s + 11] = 52
        /\ FileA[s + 12] = 16 /\ FileA[s + 17] = 16 /\ FileA[s + 22] = 52
        /\ FileA[s + 23] = 48}

MatrixAccess == src.fam = "matrix" /\ phase = "compiled"

\* the element offset the code at s computes for the indices i and j
OffsetAt(s, i, j) == i * Word(s + 6) + j * Word(s + 17)

\* C26: for m: [[T; M]; N] the code of m[i][j] multiplies i by a stride derived from M and
\* j by the element stride: over 0 <= i < N and 0 <= j < M distinct index pairs have
\* distinct offsets, and every offset is below M * N.
C26_IndexOffsets ==
    MatrixAccess
        => /\ IndexCodes # {}
           /\ \A s \in IndexCodes :
                 /\ Word(s + 1) = src.i
                 /\ Word(s + 12) = src.j
                 /\ \A i \in 0..(src.rows - 1), j \in 0..(src.cols - 1) :
                       /\ OffsetAt(s, i, j) < src.rows * src.cols
                       /\ \A i2 \in 0..(src.rows - 1), j2 \in 0..(src.cols - 1) :
                             OffsetAt(s, i, j) = OffsetAt(s, i2, j2) => i = i2 /\ j = j2

\* C26, what the code does: i is multiplied by N, the outer dimension, and j by 1
C26_OuterStride ==
    MatrixAccess
        => /\ IndexCodes # {}
           /\ \A s \in IndexCodes :
                 /\ Word(s + 1) = src.i
                 /\ Word(s + 12) = src.j
                 /\ Word(s + 6) = src.rows
                 /\ Word(s + 17) = 1

(***************************************************************************)
(* The parse loop                                                          *)
(***************************************************************************)
\* the symbol on top of the stack and the lookahead of a running parse
Top == pstate.stack[Len(pstate.stack)]
Token == Lookahead(input, pstate.pos)

\* the lookahead disagrees with the top of the stack: a terminal other than the token, End
\* before a token, or a nonterminal without a production for the token
Disagreement ==
    /\ phase = "parse"
    /\ pstate.result = "running"
    /\ CASE Top.kind = "Terminal" -> Token.t # Top.sym
         [] Top.kind = "End" -> Token.t # "None"
         [] Top.kind = "Empty" -> FALSE
         [] OTHER -> ~Production(Top.sym, Token).ok

\* C27: parse returns on every token sequence; it returns Ok only when End has been
\* matched against no-more-tokens with the stack empty, and at the first disagreement of
\* lookahead and stack top it returns a syntax error without aborting and without
\* requesting another token, also when the input ends inside an expression.
C27_FatalAtFirstDisagreement ==
    [][/\ phase' # "aborted"
       /\ Disagreement => phase' = "syntax_error" /\ pstate'.pos = pstate.pos
       /\ phase' = "parsed"
            => /\ Top.kind = "End"
               /\ Token.t = "None"
               /\ pstate'.stack = <<>>]_vars

\* C27, the parts that hold: parse returns Ok only from End matched against no-more-tokens
\* with the stack empty, and a nonterminal without a production ends the parse at once
C27_AcceptsAtEnd ==
    [][/\ phase' = "parsed"
            => /\ Top.kind = "End"
               /\ Token.t = "None"
               /\ pstate'.stack = <<>>
       /\ (Disagreement /\ Top.kind # "Terminal")
            => phase' \in {"syntax_error", "aborted"} /\ pstate'.pos = pstate.pos]_vars

\* C27, the abort: Term1 without a production for no-more-tokens
C27_AbortsOnlyAtTerm1 ==
    [][phase' = "aborted" <=> (Disagreement /\ Top.kind = "NT" /\ Top.sym = "Term1"
                               /\ Token.t = "None")]_vars

(***************************************************************************)
(* The parse tree                                                          *)
(***************************************************************************)
Arena == pstate.parse_tree
Unexpanded(i) == IsNonTerminal(get_node(Arena, i)) /\ get_children(Arena, i) = <<>>

\* the terminals at the leaves of the subtree of node i, left to right
RECURSIVE Yield(_)
RECURSIVE YieldOf(_, _)
Yield(i) ==
    IF get_node(Arena, i).kind = "Terminal" THEN <<get_node(Arena, i).sym>>
    ELSE YieldOf(get_children(Arena, i), 1)
YieldOf(children, k) ==
    IF k > Len(children) THEN <<>> ELSE Yield(children[k]) \o YieldOf(children, k + 1)

\* C28: when parse pops a nonterminal, idx is the arena node of that occurrence: the node
\* carries the nonterminal and has no children yet, so a production's children hang
\* under the node they expand and the leaves of the tree of a grammatical program spell
\* its tokens.  Node
\* 0 is the start symbol, every other node has one parent, of a smaller index, and is
\* listed once among the children; get_next_nt_sibling ends, and idx is 0 or a
\* nonterminal not yet expanded.
C28_FocusInvariant ==
    /\ (phase = "parse" /\ pstate.stack # <<>> /\ Top.kind = "NT")
            => /\ pstate.idx < Len(Arena.node_list)
               /\ get_node(Arena, pstate.idx) = Top
               /\ Unexpanded(pstate.idx)
    /\ phase = "parse"
            => /\ pstate.idx = 0 \/ Unexpanded(pstate.idx)
               /\ SiblingRun(Arena, [idx |-> pstate.idx, ret |-> 0, done |-> FALSE],
                             Len(Arena.node_list) + 1).done
    /\ get_node(Arena, 0) = NT("Program")
    /\ Arena.parents_list[1] = -1
    /\ \A k \in 1..(Len(Arena.node_list) - 1) :
          /\ Arena.parents_list[k + 1] \in 0..(k - 1)
          /\ \E c \in 1..Len(get_children(Arena, Arena.parents_list[k + 1])) :
                get_children(Arena, Arena.parents_list[k + 1])[c] = k
    /\ \A q \in 0..(Len(Arena.node_list) - 1) :
          \A c \in 1..Len(get_children(Arena, q)) :
             /\ Arena.parents_list[get_children(Arena, q)[c] + 1] = q
             /\ c > 1 => get_children(Arena, q)[c - 1] < get_children(Arena, q)[c]
    /\ phase = "parsed" => Yield(0) = [k \in 1..Len(input) |-> input[k].t]

\* a parse that has ended a production without nonterminals below the root and moved idx
\* to a later sibling of an ancestor
C28_Witness ==
    /\ phase = "parse"
    /\ pstate.stack # <<>>
    /\ Top.kind = "NT"
    /\ pstate.idx # 0
    /\ pstate.idx # Len(Arena.node_list) - 1
    /\ Arena.parents_list[pstate.idx + 1] # Arena.parents_list[Len(Arena.node_list)]
    /\ get_node(Arena, pstate.idx) = Top

(***************************************************************************)
(* Progress of the lexer                                                   *)
(***************************************************************************)
\* C29: a call of next_token leaves curr within 0..len and not below where it was, above
\* where it was when it returns a token; repeated calls come to return no-more-tokens,
\* and a call after no-more-tokens returns it again.
C29_LexerProgress ==
    [][/\ lexer'.curr \in lexer.curr..Len(lexer.chars)
       /\ last_token' # NoToken => last_token' # PanicToken /\ lexer'.curr > lexer.curr
       /\ last_token' = NoToken => Lexer_next_token(lexer').token = NoToken]_vars

\* C29, the parts that hold: curr stays within 0..len and never decreases, and a call
\* that returns a token has advanced it
C29_CursorAdvances ==
    [][/\ lexer'.curr \in lexer.curr..Len(lexer.chars)
       /\ last_token' \notin {NoToken, PanicToken} => lexer'.curr > lexer.curr]_vars

\* C29, without the calls that panic: no-more-tokens is returned again by the next call
C29_NoneIsFinal ==
    [][last_token' = NoToken
          => Lexer_next_token(lexer').token \in {NoToken, PanicToken}]_vars

(***************************************************************************)
(* The locals set                                                          *)
(***************************************************************************)
\* the pairs of the locals set that a declaration put there: those of no parameter
Declared ==
    {v \in scope.var_set : \A i \in 1..Len(Entry.params) : Entry.params[i][1] # v[1]}

\* C30: the locals set that scope resolution builds holds one (name, type) pair per
\* declared name, also when sibling blocks declare the name with different types, so
\* every iteration order of the set gives a name the same type.
C30_UniqueLocalType ==
    scope.var_set # {}
        => /\ \A v, w \in Declared : v[1] = w[1] => v[2] = w[2]
           /\ \A f, g \in FirstChoices(Declared) : f = g

\* C30, what holds: one pair per name when the declarations of a name agree on the type
C30_UniqueWhenTypesAgree ==
    (scope.var_set # {} /\ (src.fam = "siblings" => src.then = src.other))
        => /\ \A v, w \in Declared : v[1] = w[1] => v[2] = w[2]
           /\ \A f, g \in FirstChoices(Declared) : f = g

====
